---- MODULE Spec2Model ----
(***************************************************************************)
(* Convolution-based depth-map inpainting (view_correction):               *)
(*   - the active-block locator kernel,                                    *)
(*   - the two diffusion kernels (plain and gradient-weighted),            *)
(*   - the host control loop InpaintDepthMapWithConvolutionCUDA,           *)
(*   - the CUDA stream that carries the device work.                       *)
(*                                                                         *)
(* Depth values are floats in the program; here they are integers and a    *)
(* float division is an integer division.  The filter weights 0.073235f    *)
(* and 0.176765f are kept as the integers 73235 and 176765 (a common       *)
(* factor 10^6 cancels in result / weight).  The float results NaN (0 / 0) *)
(* and +inf (v / 0) are handled where the code compares them.              *)
(***************************************************************************)
EXTENDS Integers, Sequences, FiniteSets, TLC

(***************************************************************************)
(* Program constants.                                                      *)
(***************************************************************************)
kIterationsPerKernelCall == 4
kBlockWidth == 32
kBlockHeight == 32
kWeightDiagonal == 73235
kWeightAxis == 176765
kConvergenceCheckInterval == 25
kLastCheckInit == -9999
kSqrt2Milli == 1414
kUint16Range == 65536

kBlockOutputSizeX == kBlockWidth - 2 * kIterationsPerKernelCall
kBlockOutputSizeY == kBlockHeight - 2 * kIterationsPerKernelCall

(***************************************************************************)
(* Bounds of the model.                                                    *)
(***************************************************************************)
ExtraCols == 1
Height == 2
MaxIterations == 32
MaxPending == 2
MaxRequests == 3
MaxCopies == 1
MaxCount == 2
MaxTransfers == 2
ThrDen == 100
WideGrid == 2732

Width == kBlockOutputSizeX + ExtraCols

Min(a, b) == IF a < b THEN a ELSE b
Max(a, b) == IF a > b THEN a ELSE b
Abs(a) == IF a < 0 THEN -a ELSE a

\* Makes TLC build the function once instead of re-evaluating its body at
\* every application.
Force(f) == IF f = f THEN f ELSE f

Pixels == 0 .. (Width * Height - 1)
Pix(x, y) == x + Width * y
PxX(p) == p % Width
PxY(p) == p \div Width

Threads == 0 .. (kBlockWidth * kBlockHeight - 1)
Tx(t) == t % kBlockWidth
Ty(t) == t \div kBlockWidth

\* cuda_util::GetBlockCount: number of blocks of block_size covering size.
GetBlockCount(size, block_size) == (size + block_size - 1) \div block_size

grid_dim_x == GetBlockCount(Width, kBlockOutputSizeX)
grid_dim_y == GetBlockCount(Height, kBlockOutputSizeY)
GridCells == grid_dim_x * grid_dim_y

\* tex2D<float>(texture, x, y) on a clamp-addressed, point-filtered,
\* unnormalized texture over an image.
tex2D(img, x, y) ==
    img[Pix(Max(0, Min(Width - 1, x)), Max(0, Min(Height - 1, y)))]

(***************************************************************************)
(* ConvolutionInpaintingInitializeVariablesKernel, one thread block        *)
(* (block_x, block_y) of the grid.                                         *)
(***************************************************************************)
InOutputRegion(t) ==
    /\ Tx(t) >= kIterationsPerKernelCall
    /\ Ty(t) >= kIterationsPerKernelCall
    /\ Tx(t) < kBlockWidth - kIterationsPerKernelCall
    /\ Ty(t) < kBlockHeight - kIterationsPerKernelCall

\* Mutation of InitX: the halo margin is not subtracted.
InitXUnshifted(block_x, t) == block_x * kBlockOutputSizeX + Tx(t)

InitX(block_x, t) == block_x * kBlockOutputSizeX + Tx(t) - kIterationsPerKernelCall
InitY(block_y, t) == block_y * kBlockOutputSizeY + Ty(t) - kIterationsPerKernelCall

\* Mutation of InitOutput: the comparison with the image size is left out.
InitOutputUnbounded(block_x, block_y, t) == InOutputRegion(t)

InitOutput(block_x, block_y, t) ==
    /\ InOutputRegion(t)
    /\ InitX(block_x, t) < Width
    /\ InitY(block_y, t) < Height

\* Mutation of InitDepthInput: the scaling factor is left out.
InitDepthInputUnscaled(scale, input, block_x, block_y, t) ==
    tex2D(input, InitX(block_x, t), InitY(block_y, t))

\* depth_input of a thread: the scaled input value.
InitDepthInput(scale, input, block_x, block_y, t) ==
    scale * tex2D(input, InitX(block_x, t), InitY(block_y, t))

\* Mutation of InitThreadIsActive: the valid pixels are the active ones.
InitThreadIsActiveValid(scale, input, block_x, block_y, t) ==
    /\ InitOutput(block_x, block_y, t)
    /\ InitDepthInput(scale, input, block_x, block_y, t) # 0

\* thread_is_active
InitThreadIsActive(scale, input, block_x, block_y, t) ==
    /\ InitOutput(block_x, block_y, t)
    /\ InitDepthInput(scale, input, block_x, block_y, t) = 0

\* num_active_threads, the block-wide sum.
InitNumActiveThreads(scale, input, block_x, block_y) ==
    Cardinality({t \in Threads :
                    InitThreadIsActive(scale, input, block_x, block_y, t)})

\* The writes depth_map_output(y, x) = depth_input of all blocks of the grid,
\* as pairs <<pixel, value>>.
InitWrites(scale, input) ==
    UNION { { <<Pix(InitX(bx, t), InitY(by, t)),
                InitDepthInput(scale, input, bx, by, t)>> :
              t \in {u \in Threads : InitOutput(bx, by, u)} } :
            <<bx, by>> \in (0 .. grid_dim_x - 1) \X (0 .. grid_dim_y - 1) }

ApplyWrites(buffer, writes) ==
    [p \in DOMAIN buffer |->
        IF \E w \in writes : w[1] = p
        THEN (CHOOSE w \in writes : w[1] = p)[2]
        ELSE buffer[p]]

(***************************************************************************)
(* The diffusion kernels.  A thread block processes the tile whose origin  *)
(* (ox, oy) it reads from block_coordinates(0, 2 * blockIdx.x + 0 / 1).    *)
(* depth_shared is a function over Threads (shared_mem_index = t).         *)
(***************************************************************************)
RawX(ox, t) == ox + Tx(t) - kIterationsPerKernelCall
RawY(oy, t) == oy + Ty(t) - kIterationsPerKernelCall

\* max(0, min(limit, raw)) where raw is an unsigned int, as in
\* ConvolutionInpaintingKernel: CUDA's min(int, unsigned) and
\* max(int, unsigned) compare as unsigned, so that a raw value below zero,
\* which has wrapped to at least 2^31, yields limit.
ClampUnsigned(limit, raw) == IF raw < 0 THEN limit ELSE Min(limit, raw)

\* max(0, min(limit, raw)) where raw is an int, as in
\* ConvolutionInpaintingKernelWithWeighting.
ClampSigned(limit, raw) == Max(0, Min(limit, raw))

KernelX(weighting, ox, t) ==
    IF weighting THEN ClampSigned(Width - 1, RawX(ox, t))
                 ELSE ClampUnsigned(Width - 1, RawX(ox, t))
KernelY(weighting, oy, t) ==
    IF weighting THEN ClampSigned(Height - 1, RawY(oy, t))
                 ELSE ClampUnsigned(Height - 1, RawY(oy, t))

\* Mutation of kIsPixelToInpaint: the comparison is turned around.
kIsPixelToInpaintInverted(input, x, y) == tex2D(input, x, y) >= 0

kIsPixelToInpaint(input, x, y) == tex2D(input, x, y) <= 0

kInImage(ox, oy, t) ==
    /\ RawX(ox, t) >= 0
    /\ RawY(oy, t) >= 0
    /\ RawX(ox, t) < Width
    /\ RawY(oy, t) < Height

\* kOutput of ConvolutionInpaintingKernel
kOutputPlain(ox, oy, t) ==
    /\ InOutputRegion(t)
    /\ RawX(ox, t) < Width
    /\ RawY(oy, t) < Height

\* kOutput of ConvolutionInpaintingKernelWithWeighting
kOutputWeighted(input, ox, oy, t) ==
    /\ InOutputRegion(t)
    /\ kInImage(ox, oy, t)
    /\ kIsPixelToInpaint(input, KernelX(TRUE, ox, t), KernelY(TRUE, oy, t))

\* The write-back condition at the end of either kernel.
WritesBack(weighting, input, ox, oy, t) ==
    IF weighting
    THEN kOutputWeighted(input, ox, oy, t)
    ELSE /\ kOutputPlain(ox, oy, t)
         /\ kIsPixelToInpaint(input, KernelX(FALSE, ox, t), KernelY(FALSE, oy, t))

\* Threads that have a full ring of neighbours in the tile.
HasNeighbourRing(t) ==
    /\ Tx(t) > 0
    /\ Ty(t) > 0
    /\ Tx(t) < kBlockWidth - 1
    /\ Ty(t) < kBlockHeight - 1

\* The 8 neighbours in the order of the code: <<dx, dy, kernel weight>>.
Neighbours ==
    << <<-1, -1, kWeightDiagonal>>, <<0, -1, kWeightAxis>>,
       <<1, -1, kWeightDiagonal>>,  <<-1, 0, kWeightAxis>>,
       <<1, 0, kWeightAxis>>,       <<-1, 1, kWeightDiagonal>>,
       <<0, 1, kWeightAxis>>,       <<1, 1, kWeightDiagonal>> >>

NeighbourIndex(t, n) == t + n[1] + kBlockWidth * n[2]

\* Mutation of BoundsGate: the reading thread's position is not tested.
BoundsGateOpen(x, y, n) == n[3] > 0

\* The image-bounds part of a neighbour's pixel_weight in
\* ConvolutionInpaintingKernel, on the reading thread's own (x, y).
BoundsGate(x, y, n) ==
    /\ (n[1] = -1 => x > 0)
    /\ (n[1] = 1 => x < Width - 1)
    /\ (n[2] = -1 => y > 0)
    /\ (n[2] = 1 => y < Height - 1)

\* Mutation of PixelWeightPlain: the neighbour's depth is not tested.
PixelWeightPlainUngated(depth_shared, x, y, t, n) ==
    IF BoundsGate(x, y, n) THEN n[3] ELSE 0

\* pixel_weight of neighbour n in ConvolutionInpaintingKernel.
PixelWeightPlain(depth_shared, x, y, t, n) ==
    IF BoundsGate(x, y, n) /\ depth_shared[NeighbourIndex(t, n)] > 0
    THEN n[3] ELSE 0

\* pixel_weight of neighbour n in ConvolutionInpaintingKernelWithWeighting.
PixelWeightWeighted(weights_shared, t, n) ==
    n[3] * weights_shared[NeighbourIndex(t, n)]

Sum8(f) == f[1] + f[2] + f[3] + f[4] + f[5] + f[6] + f[7] + f[8]

\* <<weight, result>> accumulated by a thread of ConvolutionInpaintingKernel
\* in one sub-iteration.
AccumulatePlain(depth_shared, hole, x, y, t) ==
    IF hole /\ HasNeighbourRing(t)
    THEN LET pw == [k \in 1 .. 8 |->
                      PixelWeightPlain(depth_shared, x, y, t, Neighbours[k])]
         IN << Sum8(pw),
               Sum8([k \in 1 .. 8 |->
                       pw[k] * depth_shared[NeighbourIndex(t, Neighbours[k])]]) >>
    ELSE <<0, 0>>

\* <<weight, sum>> accumulated by a thread of the weighted kernel.
AccumulateWeighted(depth_shared, weights_shared, hole, t) ==
    IF hole /\ HasNeighbourRing(t)
    THEN LET pw == [k \in 1 .. 8 |->
                      PixelWeightWeighted(weights_shared, t, Neighbours[k])]
         IN << Sum8(pw),
               Sum8([k \in 1 .. 8 |->
                       pw[k] * depth_shared[NeighbourIndex(t, Neighbours[k])]]) >>
    ELSE <<0, 0>>

\* Mutation of ReplacesPlain: a value is replaced only when all eight
\* neighbours contributed.
ReplacesPlainFullRing(acc) == acc[1] >= 4 * (kWeightDiagonal + kWeightAxis)

\* Whether the code replaces the cached value, given <<weight, result>>:
\* "weight > 0" in the plain kernel, "new_depth > 0" in the weighted one
\* (new_depth is 0 for a thread that did not accumulate and NaN for 0 / 0).
ReplacesPlain(acc) == acc[1] > 0
ReplacesWeighted(acc) == acc[1] > 0 /\ (acc[2] \div acc[1]) > 0

\* Mutation of ChangeExceeds: the old value is not subtracted.
ChangeExceedsRatio(new_depth, old, thr_num) ==
    IF old = 0
    THEN new_depth # 0
    ELSE Abs(new_depth) * ThrDen > thr_num * Abs(old)

\* fabs((new_depth - old) / old) > max_change_rate_threshold, where the
\* threshold is thr_num / ThrDen: x / 0 is +inf for x # 0 and NaN for x = 0,
\* and NaN compares false.
ChangeExceeds(new_depth, old, thr_num) ==
    IF old = 0
    THEN new_depth # 0
    ELSE Abs(new_depth - old) * ThrDen > thr_num * Abs(old)

\* base_weight of a thread of the weighted kernel, in tenths: 10 stands for
\* the float 1.0.
BaseWeight(gradient, ox, oy, t) ==
    IF kInImage(ox, oy, t)
    THEN (2550000 \div
            (255000 + 50 * kSqrt2Milli *
                tex2D(gradient, KernelX(TRUE, ox, t), KernelY(TRUE, oy, t))))
    ELSE 0

\* One sub-iteration of ConvolutionInpaintingKernel on the whole tile cache.
PlainSubIteration(depth_shared, input, ox, oy) ==
    Force([t \in Threads |->
        LET x == KernelX(FALSE, ox, t)
            y == KernelY(FALSE, oy, t)
        IN  IF ~kIsPixelToInpaint(input, x, y)
            THEN depth_shared[t]
            ELSE LET acc == AccumulatePlain(depth_shared, TRUE, x, y, t)
                 IN  IF ReplacesPlain(acc)
                     THEN acc[2] \div acc[1]
                     ELSE depth_shared[t]])

\* One sub-iteration of ConvolutionInpaintingKernelWithWeighting on the
\* caches <<depth_shared, weights_shared>>; last is i = kIterationsPerKernelCall - 1.
WeightedSubIteration(caches, input, gradient, ox, oy, last) ==
    LET depth_shared == caches[1]
        weights_shared == caches[2]
        replaced ==
            Force([t \in Threads |->
                IF ~kIsPixelToInpaint(input, KernelX(TRUE, ox, t),
                                      KernelY(TRUE, oy, t))
                THEN <<FALSE, 0>>
                ELSE LET acc == AccumulateWeighted(depth_shared,
                                                   weights_shared, TRUE, t)
                     IN  IF ReplacesWeighted(acc)
                         THEN <<TRUE, acc[2] \div acc[1]>>
                         ELSE <<FALSE, 0>>])
    IN  << Force([t \in Threads |->
                IF replaced[t][1] THEN replaced[t][2] ELSE depth_shared[t]]),
           Force([t \in Threads |->
                IF replaced[t][1] /\ ~last
                THEN BaseWeight(gradient, ox, oy, t)
                ELSE weights_shared[t]]) >>

RECURSIVE PlainIterate(_, _, _, _, _)
PlainIterate(depth_shared, input, ox, oy, n) ==
    IF n = 0
    THEN depth_shared
    ELSE PlainSubIteration(PlainIterate(depth_shared, input, ox, oy, n - 1),
                           input, ox, oy)

RECURSIVE WeightedIterate(_, _, _, _, _, _)
WeightedIterate(caches, input, gradient, ox, oy, n) ==
    IF n = 0
    THEN caches
    ELSE WeightedSubIteration(
             WeightedIterate(caches, input, gradient, ox, oy, n - 1),
             input, gradient, ox, oy, n = kIterationsPerKernelCall)

\* Mutation of PlainMaxChange: the threads outside the output region and
\* the pixels that are not inpainted take part in the test as well.
PlainMaxChangeUngated(depth_shared, input, ox, oy, thr_num) ==
    IF \E t \in Threads :
          LET x == KernelX(FALSE, ox, t)
              y == KernelY(FALSE, oy, t)
              acc == AccumulatePlain(depth_shared, TRUE, x, y, t)
          IN  /\ acc[1] > 0
              /\ ChangeExceeds(acc[2] \div acc[1], depth_shared[t], thr_num)
    THEN 1 ELSE 0

\* The value the block writes to max_change(0, blockIdx.x) on the last
\* sub-iteration, given the caches at the start of that sub-iteration.
\* (The plain kernel also writes the flag on the earlier sub-iterations,
\* from change = 0 in every thread; the last write is the one that stays.)
PlainMaxChange(depth_shared, input, ox, oy, thr_num) ==
    IF \E t \in Threads :
          LET x == KernelX(FALSE, ox, t)
              y == KernelY(FALSE, oy, t)
          IN  IF kOutputPlain(ox, oy, t) /\ kIsPixelToInpaint(input, x, y)
              THEN LET acc == AccumulatePlain(depth_shared, TRUE, x, y, t)
                   IN  /\ acc[1] > 0
                       /\ ChangeExceeds(acc[2] \div acc[1], depth_shared[t],
                                        thr_num)
              ELSE 0 > thr_num
    THEN 1 ELSE 0

WeightedMaxChange(caches, input, ox, oy, thr_num) ==
    IF \E t \in Threads :
          IF kOutputWeighted(input, ox, oy, t)
          THEN LET acc == AccumulateWeighted(caches[1], caches[2], TRUE, t)
               IN  /\ acc[1] > 0
                   /\ ChangeExceeds(acc[2] \div acc[1], caches[1][t], thr_num)
          ELSE 0 > thr_num
    THEN 1 ELSE 0

\* depth_shared / weights_shared as loaded from the working buffer.
LoadDepthShared(weighting, buffer, ox, oy) ==
    Force([t \in Threads |->
        buffer[Pix(KernelX(weighting, ox, t), KernelY(weighting, oy, t))]])

LoadWeightsShared(depth_shared, gradient, ox, oy) ==
    Force([t \in Threads |->
        IF depth_shared[t] > 0 THEN BaseWeight(gradient, ox, oy, t) ELSE 0])

\* The effect of one thread block of a diffusion launch that loaded its
\* cache from the working buffer `loaded`: the pixels it writes back and the
\* flag it writes when check_convergence.
RunBlock(weighting, check, input, gradient, thr_num, loaded, ox, oy) ==
    LET d0 == LoadDepthShared(weighting, loaded, ox, oy)
        before_last ==
            IF weighting
            THEN WeightedIterate(<<d0, LoadWeightsShared(d0, gradient, ox, oy)>>,
                                 input, gradient, ox, oy,
                                 kIterationsPerKernelCall - 1)
            ELSE <<PlainIterate(d0, input, ox, oy,
                                kIterationsPerKernelCall - 1)>>
        final ==
            IF weighting
            THEN WeightedSubIteration(before_last, input, gradient, ox, oy,
                                      TRUE)[1]
            ELSE PlainSubIteration(before_last[1], input, ox, oy)
    IN  [ writes |->
            { <<Pix(KernelX(weighting, ox, t), KernelY(weighting, oy, t)),
                final[t]>> :
              t \in {u \in Threads : WritesBack(weighting, input, ox, oy, u)} },
          flag |->
            IF ~check THEN 0
            ELSE IF weighting
            THEN WeightedMaxChange(before_last, input, ox, oy, thr_num)
            ELSE PlainMaxChange(before_last[1], input, ox, oy, thr_num) ]

(***************************************************************************)
(* State.                                                                  *)
(***************************************************************************)
VARIABLES
    \* arguments of InpaintDepthMapWithConvolutionCUDA
    use_weighting, max_num_iterations, thr_num, depth_input_scaling_factor,
    depth_map_input, gradient_magnitude_div_sqrt2,
    \* what uninitialized memory holds (0 or 1; depth buffers hold its negative)
    garbage,
    \* the tile grid <<grid_dim.x, grid_dim.y>> of the call
    grid_dim,
    \* <<width, height>>, in elements, of the two scratch buffers
    block_coordinates_size, max_change_size,
    \* device buffers
    depth_map_output, block_coordinates, max_change,
    \* the CUDA stream: operations issued and not yet completed, oldest first
    stream,
    \* host locals of InpaintDepthMapWithConvolutionCUDA
    pc, i, last_convergence_check_iteration, active_block_count,
    pixel_to_inpaint_count, block_activity, block_coordinates_cpu,
    max_change_cpu, returned, log,
    \* history: the diffusion launches issued and the convergence checks read
    launch_log, check_log,
    \* the call site of the device operation that failed, "none" if none did
    cuda_error,
    \* a CUDABuffer: where its life stands, data_.height_, the state of
    \* data_.address_ and the calls of cudaFree on it
    buffer_pc, data_height_, data_address_, free_calls,
    \* its cached sampler: the members of CUDABuffer
    texture_object_allocated_, texture_object_, texture_desc_,
    \* every sampler created over the buffer, by handle: its description
    \* and the calls of cudaDestroyTextureObject on it
    textures,
    \* the local texture of a SetTo that reads the buffer, 0 outside of it
    texture,
    \* history: the GetCachedTextureObject requests and what they returned,
    \* the partial-transfer calls and whether each issued its copy
    requests, transfers,
    \* one thread block of a diffusion launch seen thread by thread: the
    \* template argument of its kernel, each thread's position in the kernel,
    \* and the accesses to depth_shared and weights_shared made since the
    \* last __syncthreads() returned
    check_convergence, thread_pc, interval

inputs == <<use_weighting, max_num_iterations, thr_num,
            depth_input_scaling_factor, depth_map_input,
            gradient_magnitude_div_sqrt2, garbage,
            grid_dim, block_coordinates_size, max_change_size>>
device == <<depth_map_output, block_coordinates, max_change>>
host == <<pc, i, last_convergence_check_iteration, active_block_count,
          pixel_to_inpaint_count, block_activity, block_coordinates_cpu,
          max_change_cpu, returned, log>>
history == <<launch_log, check_log>>
buffer == <<buffer_pc, data_height_, data_address_, free_calls,
            texture_object_allocated_, texture_object_, texture_desc_,
            textures, texture, requests, transfers>>
tile == <<check_convergence, thread_pc, interval>>
vars == <<inputs, device, stream, host, history, cuda_error, buffer, tile>>

(***************************************************************************)
(* Inputs.                                                                 *)
(***************************************************************************)
Ramp(p) == 30 + 15 * (PxX(p) % 5) + 5 * (PxY(p) % 2)

AllRows(xs) == {Pix(x, y) : x \in xs, y \in 0 .. Height - 1}

\* Hole layouts: none; everything; one hole in the first tile; one hole in
\* each tile; a wide hole region in the first tile; the same and one hole in
\* the last tile; holes on both sides of the tile border.
HoleSets ==
    [ none |-> {},
      all |-> Pixels,
      one |-> {Pix(10, 0)},
      two |-> {Pix(10, 0), Pix(Width - 1, 0)},
      wide |-> AllRows(3 .. 8),
      partial |-> AllRows(3 .. 8) \cup {Pix(Width - 1, 0)},
      border |-> AllRows(kBlockOutputSizeX - 2 .. Width - 1) ]

Image(holes, negative, uniform) ==
    [p \in Pixels |->
        IF p \in holes THEN 0
        ELSE IF p \in negative THEN -6
        ELSE IF uniform THEN 80 ELSE Ramp(p)]

GradientImage(flat) == [p \in Pixels |-> IF flat THEN 0 ELSE (PxX(p) % 3)]

IterationCounts == {-5, 0, 1, 4, 5, 8, MaxIterations}

Uninitialized(n, value) == [c \in 0 .. n - 1 |-> value]
NullArray == [st |-> "null", d |-> <<>>]

Scenario(w, m, thr, scale, g, holes, neg, uniform) ==
    [w |-> w, m |-> m, thr |-> thr, scale |-> scale, g |-> g, holes |-> holes,
     neg |-> neg, uniform |-> uniform]

Scenarios ==
    \* long runs: several convergence checks
    { Scenario(w, m, 1, 1, 0, "partial", FALSE, FALSE) :
        w \in BOOLEAN, m \in {8, MaxIterations} }
    \cup
    \* every iteration count, converging at once ("one") or not ("wide")
    { Scenario(FALSE, m, thr, 1, 0, h, FALSE, FALSE) :
        m \in IterationCounts \ {MaxIterations}, thr \in {1, 50},
        h \in {"one", "wide"} }
    \cup
    \* every hole layout, both kernels, dirty buffers
    { Scenario(w, 5, 1, 1, 1, h, FALSE, u) :
        w \in BOOLEAN, h \in {"none", "one", "two", "border"}, u \in BOOLEAN }
    \cup
    \* one valid value around a hole region three pixels deep
    { Scenario(w, 5, 1, 1, 1, "wide", FALSE, TRUE) : w \in BOOLEAN }
    \cup
    { Scenario(w, m, 1, 1, 1, "all", FALSE, FALSE) :
        w \in BOOLEAN, m \in {4, 8} }
    \cup
    \* scaling factors and negative inputs
    { Scenario(w, 5, 1, scale, 1, h, neg, FALSE) :
        w \in BOOLEAN, scale \in {-1, 0, 2}, h \in {"none", "one"},
        neg \in BOOLEAN }

\* The calls in which device operations are made to fail.
FaultScenarios ==
    { Scenario(w, m, 1, 1, g, h, FALSE, FALSE) :
        w \in BOOLEAN, m \in {0, 8}, g \in {0, 1},
        h \in {"none", "one", "partial"} }

\* The state at the entry of InpaintDepthMapWithConvolutionCUDA, called with
\* scratch buffers of the given sizes.
EntrySized(sc, coordinates_size, change_size) ==
        /\ use_weighting = sc.w
        /\ max_num_iterations = sc.m
        /\ thr_num = sc.thr
        /\ depth_input_scaling_factor = sc.scale
        /\ depth_map_input =
              Image(HoleSets[sc.holes],
                    IF sc.neg THEN {Pix(9, 0), Pix(Width - 1, Height - 1)} ELSE {},
                    sc.uniform)
        /\ gradient_magnitude_div_sqrt2 = GradientImage(sc.uniform)
        /\ garbage = sc.g
        /\ grid_dim = <<grid_dim_x, grid_dim_y>>
        /\ block_coordinates_size = coordinates_size
        /\ max_change_size = change_size
        /\ depth_map_output = [p \in Pixels |-> -7 * sc.g]
        /\ block_coordinates = Uninitialized(2 * GridCells, sc.g)
        /\ max_change = Uninitialized(GridCells, sc.g)
        /\ stream = <<>>
        /\ pc = "launch_locator"
        /\ i = 0
        /\ last_convergence_check_iteration = kLastCheckInit
        /\ active_block_count = 0
        /\ pixel_to_inpaint_count = 99 * sc.g
        /\ block_activity = NullArray
        /\ block_coordinates_cpu = NullArray
        /\ max_change_cpu = NullArray
        /\ returned = -1
        /\ log = "none"
        /\ launch_log = <<>>
        /\ check_log = <<>>
        /\ cuda_error = "none"

\* The entry with scratch buffers that are flat arrays, block_coordinates with
\* room for a coordinate pair per tile and max_change for a flag per tile.
Entry(sc) == EntrySized(sc, <<2 * GridCells, 1>>, <<GridCells, 1>>)

\* The five parameters of a sampler.
SamplerDesc(ax, ay, f, r, n) ==
    [address_mode_x |-> ax, address_mode_y |-> ay, filter_mode |-> f,
     read_mode |-> r, use_normalized_coordinates |-> n]

\* The members that describe the cached sampler before any was created.
UninitializedDesc == SamplerDesc("?", "?", "?", "?", "?")

\* No CUDABuffer is constructed yet.
NoBuffer ==
    /\ buffer_pc = "unbuilt"
    /\ data_height_ = 0
    /\ data_address_ = "null"
    /\ free_calls = 0
    /\ texture_object_allocated_ = FALSE
    /\ texture_object_ = 0
    /\ texture_desc_ = UninitializedDesc
    /\ textures = <<>>
    /\ texture = 0
    /\ requests = <<>>
    /\ transfers = <<>>

\* No thread block is followed thread by thread.
NoTile ==
    /\ check_convergence = FALSE
    /\ thread_pc = <<>>
    /\ interval = {}

Init == (\E sc \in Scenarios : Entry(sc)) /\ NoBuffer /\ NoTile

InitFault == (\E sc \in FaultScenarios : Entry(sc)) /\ NoBuffer /\ NoTile

(***************************************************************************)
(* The stream.                                                             *)
(***************************************************************************)
\* n is the number of thread blocks of a diffusion launch and the number of
\* elements of a transfer; st and loaded are the progress of the thread
\* blocks of a diffusion launch.
StreamOp(name, check, n) ==
    [op |-> name, check |-> check, n |-> n,
     st |-> IF name = "kernel" THEN [b \in 0 .. n - 1 |-> "pending"] ELSE <<>>,
     loaded |-> IF name = "kernel" THEN [b \in 0 .. n - 1 |-> <<>>] ELSE <<>>]

CanIssue == Len(stream) < MaxPending
Issue(op) == stream' = Append(stream, op)
HeadIs(name) == stream # <<>> /\ Head(stream).op = name

(***************************************************************************)
(* Host: InpaintDepthMapWithConvolutionCUDA, statement by statement.       *)
(***************************************************************************)
\* The conversion of a value to uint16_t.
Uint16(n) == n % kUint16Range

\* The tile origin the compactor stores for grid cell c of a grid: the
\* elements of block_coordinates_cpu are uint16_t.
TileOrigin(grid, c) ==
    << Uint16((c % grid[1]) * kBlockOutputSizeX),
       Uint16((c \div grid[1]) * kBlockOutputSizeY) >>

\* The grid cells x + y * grid_dim.x from lo up to hi - 1 that the compactor
\* keeps, in the order of its scan (the scan is split in halves to keep the
\* evaluation shallow).
RECURSIVE ActiveCells(_, _, _)
ActiveCells(activity, lo, hi) ==
    IF hi <= lo THEN <<>>
    ELSE IF hi = lo + 1
         THEN IF activity[lo] > 0 THEN <<lo>> ELSE <<>>
         ELSE LET mid == (lo + hi) \div 2
              IN  ActiveCells(activity, lo, mid) \o ActiveCells(activity, mid, hi)

RECURSIVE SumActivity(_, _)
SumActivity(activity, cells) ==
    IF cells = <<>> THEN 0
    ELSE activity[Head(cells)] + SumActivity(activity, Tail(cells))

\* block_coordinates_cpu after the compaction loop.
CompactedCoordinates(grid, cells, fill) ==
    [k \in 0 .. 2 * grid[1] * grid[2] - 1 |->
        IF k < 2 * Len(cells)
        THEN TileOrigin(grid, cells[(k \div 2) + 1])[(k % 2) + 1]
        ELSE fill]

\* Mutation of LoopContinues: the bound is inclusive.
LoopContinuesInclusive(iteration, max_iterations) ==
    iteration <= max_iterations

\* The loop condition of the iteration loop.
LoopContinues(iteration, max_iterations) == iteration < max_iterations

\* Mutation of CheckConvergence: every launch checks.
CheckConvergenceAlways(iteration, last_check) == iteration >= last_check

\* check_convergence
CheckConvergence(iteration, last_check) ==
    iteration - last_check >= kConvergenceCheckInterval

\* grid_dim_active
GridDimActive(active) == active

\* Mutation of ActiveBlockCountAfterCheck: the count restarts from the grid.
ActiveBlockCountReset(active, new_active) == GridCells

\* active_block_count after a convergence check that counted
\* new_active flagged tiles among active ones: the code does not assign it.
ActiveBlockCountAfterCheck(active, new_active) == active

\* Mutation of IterationAfterBreak: the increment before the break is lost.
IterationAfterBreakUnchanged(iteration) == iteration

\* i after the break of a converged check.
IterationAfterBreak(iteration) == iteration + kIterationsPerKernelCall

\* Mutation of FinalReport: the comparison is inclusive.
FinalReportInclusive(iteration, max_iterations) ==
    IF iteration <= max_iterations THEN "converged" ELSE "maximum"

\* Which of the two final reports is logged.
FinalReport(iteration, max_iterations) ==
    IF iteration < max_iterations THEN "converged" ELSE "maximum"

\* The tiles a launch over n blocks processes, from the coordinate list.
LaunchTiles(coordinates, n) ==
    { <<coordinates[2 * b], coordinates[2 * b + 1]>> : b \in 0 .. n - 1 }

\* Mutation of PartTransferChecks: only the host pointer is checked.
PartTransferChecksPointerOnly(height, data_null) == ~data_null

\* CHECK_EQ(data_.height_, 1); CHECK_NOTNULL(data);
PartTransferChecks(height, data_null) == height = 1 /\ ~data_null

\* What CUDA_CHECKED_CALL(cudaMemcpy2DAsync(...)) of length elements does on
\* a one-row buffer of the given width.  The host pitch passed is the width
\* of the buffer: a longer copy is rejected for exceeding a pitch, and the
\* process aborts, or is carried out into the padding of the pitched row,
\* depending on what the runtime validates for a single row.
CopyOutcomes(length, width) ==
    IF length <= width THEN {"copied"} ELSE {"copied", "rejected"}

\* Mutation of StreamSynchronized: the call returns at once.
StreamSynchronizedAtOnce(s) == TRUE

\* cudaStreamSynchronize(stream) returns when every operation issued to the
\* stream has completed.
StreamSynchronized(s) == s = <<>>

HostLaunchLocator ==
    /\ pc = "launch_locator"
    /\ CanIssue
    /\ Issue(StreamOp("locator", FALSE, 0))
    /\ pc' = "download_activity"
    /\ UNCHANGED <<inputs, buffer, tile, cuda_error, device, history, i,
                   last_convergence_check_iteration, active_block_count,
                   pixel_to_inpaint_count, block_activity,
                   block_coordinates_cpu, max_change_cpu, returned, log>>

HostDownloadActivity ==
    /\ pc = "download_activity"
    /\ CanIssue
    /\ block_activity' = [st |-> "alloc", d |-> Uninitialized(GridCells, garbage)]
    /\ IF PartTransferChecks(block_coordinates_size[2], FALSE)
       THEN /\ Issue(StreamOp("download_activity", FALSE, GridCells))
            /\ pc' = "sync_activity"
       ELSE /\ pc' = "aborted"
            /\ UNCHANGED stream
    /\ UNCHANGED <<inputs, buffer, tile, cuda_error, device, history, i,
                   last_convergence_check_iteration, active_block_count,
                   pixel_to_inpaint_count, block_coordinates_cpu,
                   max_change_cpu, returned, log>>

HostSyncActivity ==
    /\ pc = "sync_activity"
    /\ StreamSynchronized(stream)
    /\ pc' = "compact"
    /\ UNCHANGED <<inputs, buffer, tile, cuda_error, device, stream, history, i,
                   last_convergence_check_iteration, active_block_count,
                   pixel_to_inpaint_count, block_activity,
                   block_coordinates_cpu, max_change_cpu, returned, log>>

HostCompact ==
    /\ pc = "compact"
    /\ LET cells == ActiveCells(block_activity.d, 0, grid_dim[1] * grid_dim[2])
       IN  /\ active_block_count' = Len(cells)
           /\ pixel_to_inpaint_count' = SumActivity(block_activity.d, cells)
           /\ block_activity' = [block_activity EXCEPT !.st = "freed"]
           /\ IF Len(cells) = 0
              THEN /\ block_coordinates_cpu' =
                        [st |-> "freed",
                         d |-> CompactedCoordinates(grid_dim, cells, garbage)]
                   /\ log' = "converged"
                   /\ returned' = 0
                   /\ pc' = "done"
              ELSE /\ block_coordinates_cpu' =
                        [st |-> "alloc",
                         d |-> CompactedCoordinates(grid_dim, cells, garbage)]
                   /\ pc' = "upload"
                   /\ UNCHANGED <<log, returned>>
    /\ UNCHANGED <<inputs, buffer, tile, cuda_error, device, stream, history, i,
                   last_convergence_check_iteration, max_change_cpu>>

HostUpload ==
    /\ pc = "upload"
    /\ CanIssue
    /\ \E outcome \in CopyOutcomes(2 * active_block_count,
                                   block_coordinates_size[1]) :
          IF /\ PartTransferChecks(block_coordinates_size[2], FALSE)
             /\ outcome = "copied"
          THEN /\ Issue(StreamOp("upload_coordinates", FALSE,
                                 2 * active_block_count))
               /\ max_change_cpu' =
                    [st |-> "alloc", d |-> Uninitialized(GridCells, garbage)]
               /\ i' = 0
               /\ last_convergence_check_iteration' = kLastCheckInit
               /\ pc' = "loop"
          ELSE /\ pc' = "aborted"
               /\ UNCHANGED <<stream, max_change_cpu, i,
                              last_convergence_check_iteration>>
    /\ UNCHANGED <<inputs, buffer, tile, cuda_error, device, history, active_block_count,
                   pixel_to_inpaint_count, block_activity,
                   block_coordinates_cpu, returned, log>>

HostLaunch ==
    /\ pc = "loop"
    /\ LoopContinues(i, max_num_iterations)
    /\ CanIssue
    /\ LET check == CheckConvergence(i, last_convergence_check_iteration)
           n == GridDimActive(active_block_count)
       IN  /\ Issue(StreamOp("kernel", check, n))
           /\ launch_log' =
                Append(launch_log,
                       [i |-> i, check |-> check, n |-> n,
                        tiles |-> LaunchTiles(block_coordinates_cpu.d, n)])
           /\ IF check
              THEN pc' = "download_flags" /\ i' = i
              ELSE pc' = "loop" /\ i' = i + kIterationsPerKernelCall
    /\ UNCHANGED <<inputs, buffer, tile, cuda_error, device, check_log,
                   last_convergence_check_iteration, active_block_count,
                   pixel_to_inpaint_count, block_activity,
                   block_coordinates_cpu, max_change_cpu, returned, log>>

HostLoopExit ==
    /\ pc = "loop"
    /\ ~LoopContinues(i, max_num_iterations)
    /\ pc' = "finish"
    /\ UNCHANGED <<inputs, buffer, tile, cuda_error, device, stream, history, i,
                   last_convergence_check_iteration, active_block_count,
                   pixel_to_inpaint_count, block_activity,
                   block_coordinates_cpu, max_change_cpu, returned, log>>

HostDownloadFlags ==
    /\ pc = "download_flags"
    /\ CanIssue
    /\ IF PartTransferChecks(max_change_size[2], FALSE)
       THEN /\ Issue(StreamOp("download_flags", FALSE, active_block_count))
            /\ pc' = "sync_flags"
       ELSE /\ pc' = "aborted"
            /\ UNCHANGED stream
    /\ UNCHANGED <<inputs, buffer, tile, cuda_error, device, history, i,
                   last_convergence_check_iteration, active_block_count,
                   pixel_to_inpaint_count, block_activity,
                   block_coordinates_cpu, max_change_cpu, returned, log>>

HostSyncFlags ==
    /\ pc = "sync_flags"
    /\ StreamSynchronized(stream)
    /\ pc' = "count_flags"
    /\ UNCHANGED <<inputs, buffer, tile, cuda_error, device, stream, history, i,
                   last_convergence_check_iteration, active_block_count,
                   pixel_to_inpaint_count, block_activity,
                   block_coordinates_cpu, max_change_cpu, returned, log>>

HostCountFlags ==
    /\ pc = "count_flags"
    /\ LET flagged == {j \in 0 .. active_block_count - 1 : max_change_cpu.d[j] # 0}
           new_active_block_count == Cardinality(flagged)
       IN  /\ check_log' =
                Append(check_log,
                       [i |-> i, active |-> active_block_count,
                        tiles |-> LaunchTiles(block_coordinates_cpu.d,
                                              active_block_count),
                        flagged |->
                          { <<block_coordinates_cpu.d[2 * j],
                              block_coordinates_cpu.d[2 * j + 1]>> :
                            j \in flagged }])
           /\ active_block_count' =
                ActiveBlockCountAfterCheck(active_block_count,
                                           new_active_block_count)
           /\ IF new_active_block_count = 0
              THEN /\ i' = IterationAfterBreak(i)
                   /\ pc' = "finish"
                   /\ UNCHANGED last_convergence_check_iteration
              ELSE /\ last_convergence_check_iteration' = i
                   /\ i' = i + kIterationsPerKernelCall
                   /\ pc' = "loop"
    /\ UNCHANGED <<inputs, buffer, tile, cuda_error, device, stream, launch_log,
                   pixel_to_inpaint_count, block_activity,
                   block_coordinates_cpu, max_change_cpu, returned, log>>

\* The deletes, CHECK_CUDA_NO_ERROR() passing, the report and the return.
HostFinish ==
    /\ pc = "finish"
    /\ cuda_error = "none"
    /\ max_change_cpu' = [max_change_cpu EXCEPT !.st = "freed"]
    /\ block_coordinates_cpu' = [block_coordinates_cpu EXCEPT !.st = "freed"]
    /\ log' = FinalReport(i, max_num_iterations)
    /\ returned' = i
    /\ pc' = "done"
    /\ UNCHANGED <<inputs, buffer, tile, cuda_error, device, stream, history, i,
                   last_convergence_check_iteration, active_block_count,
                   pixel_to_inpaint_count, block_activity>>

(***************************************************************************)
(* Device: the stream executes its operations in issue order.  The thread  *)
(* blocks of a diffusion launch run in any order and may overlap: each     *)
(* first loads its tile cache from the working buffer and later, after its *)
(* sub-iterations, writes its output region and its flag.                  *)
(***************************************************************************)
DeviceLocator ==
    /\ HeadIs("locator")
    /\ depth_map_output' =
          ApplyWrites(depth_map_output,
                      InitWrites(depth_input_scaling_factor, depth_map_input))
    /\ block_coordinates' =
          [c \in DOMAIN block_coordinates |->
              IF c < GridCells
              THEN InitNumActiveThreads(depth_input_scaling_factor,
                                        depth_map_input,
                                        c % grid_dim_x, c \div grid_dim_x)
              ELSE block_coordinates[c]]
    /\ stream' = Tail(stream)
    /\ UNCHANGED <<inputs, buffer, tile, cuda_error, max_change, host, history>>

\* DownloadPartAsync(0, n * sizeof(uint16_t), stream, block_activity)
DeviceDownloadActivity ==
    /\ HeadIs("download_activity")
    /\ block_activity' =
          [block_activity EXCEPT
              !.d = [c \in DOMAIN block_activity.d |->
                        IF c < Head(stream).n THEN block_coordinates[c]
                        ELSE block_activity.d[c]]]
    /\ stream' = Tail(stream)
    /\ UNCHANGED <<inputs, buffer, tile, cuda_error, device, history, pc, i,
                   last_convergence_check_iteration, active_block_count,
                   pixel_to_inpaint_count, block_coordinates_cpu,
                   max_change_cpu, returned, log>>

\* What a transfer that the stream carries out reads from a host array: its
\* contents, or, once the array has been deleted, either what it held or
\* whatever the memory holds by then.
HostArrayRead(array) ==
    IF array.st = "freed"
    THEN {array.d, [c \in DOMAIN array.d |-> garbage]}
    ELSE {array.d}

\* UploadPartAsync(0, n * sizeof(uint16_t), stream, block_coordinates_cpu)
DeviceUploadCoordinates ==
    /\ HeadIs("upload_coordinates")
    /\ \E source \in HostArrayRead(block_coordinates_cpu) :
          block_coordinates' =
             [c \in DOMAIN block_coordinates |->
                 IF c < Head(stream).n THEN source[c]
                 ELSE block_coordinates[c]]
    /\ stream' = Tail(stream)
    /\ UNCHANGED <<inputs, buffer, tile, cuda_error, depth_map_output, max_change, host, history>>

\* The stream after thread block b of its head launch has loaded its cache.
StreamAfterLoad(b) ==
    [stream EXCEPT ![1].st[b] = "loaded", ![1].loaded[b] = depth_map_output]

\* The stream after thread block b of its head launch has finished: the
\* launch leaves the stream with its last thread block.
StreamAfterFlush(b) ==
    LET st == [Head(stream).st EXCEPT ![b] = "done"]
    IN  IF \A c \in DOMAIN st : st[c] = "done"
        THEN Tail(stream)
        ELSE [stream EXCEPT ![1].st = st, ![1].loaded[b] = <<>>]

BlockLoad(b) ==
    /\ HeadIs("kernel")
    /\ b \in DOMAIN Head(stream).st
    /\ Head(stream).st[b] = "pending"
    /\ stream' = StreamAfterLoad(b)
    /\ UNCHANGED <<inputs, buffer, tile, cuda_error, device, host, history>>

BlockFlush(b) ==
    /\ HeadIs("kernel")
    /\ b \in DOMAIN Head(stream).st
    /\ Head(stream).st[b] = "loaded"
    /\ LET op == Head(stream)
           result == RunBlock(use_weighting, op.check, depth_map_input,
                              gradient_magnitude_div_sqrt2, thr_num,
                              op.loaded[b],
                              block_coordinates[2 * b],
                              block_coordinates[2 * b + 1])
       IN  /\ depth_map_output' = ApplyWrites(depth_map_output, result.writes)
           /\ max_change' =
                IF op.check THEN [max_change EXCEPT ![b] = result.flag]
                ELSE max_change
           /\ stream' = StreamAfterFlush(b)
    /\ UNCHANGED <<inputs, buffer, tile, cuda_error, block_coordinates, host, history>>

\* DownloadPartAsync(0, n * sizeof(uint8_t), stream, max_change_cpu)
DeviceDownloadFlags ==
    /\ HeadIs("download_flags")
    /\ max_change_cpu' =
          [max_change_cpu EXCEPT
              !.d = [c \in DOMAIN max_change_cpu.d |->
                        IF c < Head(stream).n THEN max_change[c]
                        ELSE max_change_cpu.d[c]]]
    /\ stream' = Tail(stream)
    /\ UNCHANGED <<inputs, buffer, tile, cuda_error, device, history, pc, i,
                   last_convergence_check_iteration, active_block_count,
                   pixel_to_inpaint_count, block_activity,
                   block_coordinates_cpu, returned, log>>

Next ==
    \/ HostLaunchLocator
    \/ HostDownloadActivity
    \/ HostSyncActivity
    \/ HostCompact
    \/ HostUpload
    \/ HostLaunch
    \/ HostLoopExit
    \/ HostDownloadFlags
    \/ HostSyncFlags
    \/ HostCountFlags
    \/ HostFinish
    \/ DeviceLocator
    \/ DeviceDownloadActivity
    \/ DeviceUploadCoordinates
    \/ \E b \in 0 .. GridCells - 1 : BlockLoad(b)
    \/ \E b \in 0 .. GridCells - 1 : BlockFlush(b)
    \/ DeviceDownloadFlags

Spec == Init /\ [][Next]_vars

\* A statement of InpaintDepthMapWithConvolutionCUDA.
HostStep ==
    \/ HostLaunchLocator
    \/ HostDownloadActivity
    \/ HostSyncActivity
    \/ HostCompact
    \/ HostUpload
    \/ HostLaunch
    \/ HostLoopExit
    \/ HostDownloadFlags
    \/ HostSyncFlags
    \/ HostCountFlags
    \/ HostFinish

\* What every step of the device does to the stream: a thread block of the
\* head launch loads or finishes, or the head operation completes.
StreamAdvances ==
    /\ stream # <<>>
    /\ \/ /\ Head(stream).op # "kernel"
          /\ stream' = Tail(stream)
       \/ \E b \in DOMAIN Head(stream).st :
             /\ Head(stream).st[b] = "pending"
             /\ stream' = StreamAfterLoad(b)
       \/ \E b \in DOMAIN Head(stream).st :
             /\ Head(stream).st[b] = "loaded"
             /\ stream' = StreamAfterFlush(b)

\* The host thread keeps running and the device keeps executing its stream.
FairSpec == Spec /\ WF_vars(HostStep) /\ WF_stream(StreamAdvances)

(***************************************************************************)
(* Failing device operations.  A call wrapped in CUDA_CHECKED_CALL, and a   *)
(* kernel launch followed by CHECK_CUDA_NO_ERROR(), abort the process when  *)
(* the operation fails.  The result of cudaStreamSynchronize is dropped and *)
(* the launches of the iteration loop are followed by no check, so the host *)
(* goes on after these fail; the work pending in the stream is lost.       *)
(***************************************************************************)
CheckedCallSites ==
    {"launch_locator", "download_activity", "upload", "download_flags"}

\* A checked operation fails: fatal at its call site.
FaultChecked ==
    /\ pc \in CheckedCallSites
    /\ cuda_error = "none"
    /\ cuda_error' = pc
    /\ pc' = "aborted"
    /\ stream' = <<>>
    /\ UNCHANGED <<inputs, buffer, tile, device, history, i,
                   last_convergence_check_iteration, active_block_count,
                   pixel_to_inpaint_count, block_activity,
                   block_coordinates_cpu, max_change_cpu, returned, log>>

\* cudaStreamSynchronize fails after the download of block_activity was
\* issued: the host reads block_activity all the same.
FaultSyncActivity ==
    /\ pc = "sync_activity"
    /\ cuda_error = "none"
    /\ cuda_error' = pc
    /\ stream' = <<>>
    /\ pc' = "compact"
    /\ UNCHANGED <<inputs, buffer, tile, device, history, i,
                   last_convergence_check_iteration, active_block_count,
                   pixel_to_inpaint_count, block_activity,
                   block_coordinates_cpu, max_change_cpu, returned, log>>

\* cudaStreamSynchronize fails after the download of the flags was issued:
\* the host counts max_change_cpu all the same.
FaultSyncFlags ==
    /\ pc = "sync_flags"
    /\ cuda_error = "none"
    /\ cuda_error' = pc
    /\ stream' = <<>>
    /\ pc' = "count_flags"
    /\ UNCHANGED <<inputs, buffer, tile, device, history, i,
                   last_convergence_check_iteration, active_block_count,
                   pixel_to_inpaint_count, block_activity,
                   block_coordinates_cpu, max_change_cpu, returned, log>>

\* A diffusion launch of the loop fails: no kernel runs, the loop goes on.
FaultLaunch ==
    /\ pc = "loop"
    /\ LoopContinues(i, max_num_iterations)
    /\ cuda_error = "none"
    /\ cuda_error' = "launch"
    /\ IF CheckConvergence(i, last_convergence_check_iteration)
       THEN pc' = "download_flags" /\ i' = i
       ELSE pc' = "loop" /\ i' = i + kIterationsPerKernelCall
    /\ UNCHANGED <<inputs, buffer, tile, device, stream, history,
                   last_convergence_check_iteration, active_block_count,
                   pixel_to_inpaint_count, block_activity,
                   block_coordinates_cpu, max_change_cpu, returned, log>>

\* A later checked call reports the earlier failure.
FaultReportedLater ==
    /\ pc \in {"upload", "download_flags"}
    /\ cuda_error # "none"
    /\ pc' = "aborted"
    /\ stream' = <<>>
    /\ UNCHANGED <<inputs, buffer, tile, cuda_error, device, history, i,
                   last_convergence_check_iteration, active_block_count,
                   pixel_to_inpaint_count, block_activity,
                   block_coordinates_cpu, max_change_cpu, returned, log>>

\* The deletes and CHECK_CUDA_NO_ERROR() after the loop finding the failure.
FaultReportedAtFinish ==
    /\ pc = "finish"
    /\ cuda_error # "none"
    /\ max_change_cpu' = [max_change_cpu EXCEPT !.st = "freed"]
    /\ block_coordinates_cpu' = [block_coordinates_cpu EXCEPT !.st = "freed"]
    /\ pc' = "aborted"
    /\ stream' = <<>>
    /\ UNCHANGED <<inputs, buffer, tile, cuda_error, device, history, i,
                   last_convergence_check_iteration, active_block_count,
                   pixel_to_inpaint_count, block_activity, returned, log>>

NextFault ==
    \/ Next
    \/ FaultChecked
    \/ FaultSyncActivity
    \/ FaultSyncFlags
    \/ FaultLaunch
    \/ FaultReportedLater
    \/ FaultReportedAtFinish

SpecFault == InitFault /\ [][NextFault]_vars

(***************************************************************************)
(* The compaction loop on its own, for tile grids and count arrays of any  *)
(* shape: it reads grid_dim and block_activity only.                       *)
(***************************************************************************)
\* Tile grids: small ones of every shape, and one so wide that the image
\* is wider than 65535 pixels.
Grids == {<<1, 1>>, <<2, 1>>, <<1, 2>>, <<2, 2>>, <<3, 2>>, <<WideGrid, 1>>}

\* The count arrays of a grid: every array of counts 0 .. MaxCount on a small
\* grid; on the wide grid, arrays with holes in its first and last tiles.
Activities(grid) ==
    LET n == grid[1] * grid[2]
    IN  IF n <= 6
        THEN [0 .. n - 1 -> 0 .. MaxCount]
        ELSE { [c \in 0 .. n - 1 |-> IF c \in on THEN MaxCount ELSE 0] :
               on \in {{}, {0}, {n - 1}, {n - 2}, {0, n - 1}, {0, n - 2, n - 1}} }

\* The host has synchronized with the stream after the download of the
\* counts.
InitCompact ==
    /\ \E grid \in Grids :
          /\ grid_dim = grid
          /\ block_coordinates_size = <<2 * grid[1] * grid[2], 1>>
          /\ max_change_size = <<grid[1] * grid[2], 1>>
          /\ \E activity \in Activities(grid) :
                /\ block_activity = [st |-> "alloc", d |-> activity]
                /\ block_coordinates =
                      [c \in 0 .. 2 * grid[1] * grid[2] - 1 |->
                          IF c < grid[1] * grid[2] THEN activity[c] ELSE 0]
          /\ max_change = Uninitialized(grid[1] * grid[2], 0)
    /\ use_weighting = FALSE
    /\ max_num_iterations = MaxIterations
    /\ thr_num = 1
    /\ depth_input_scaling_factor = 1
    /\ depth_map_input = Image({}, {}, FALSE)
    /\ gradient_magnitude_div_sqrt2 = GradientImage(FALSE)
    /\ garbage = 0
    /\ depth_map_output = depth_map_input
    /\ stream = <<>>
    /\ pc = "compact"
    /\ i = 0
    /\ last_convergence_check_iteration = kLastCheckInit
    /\ active_block_count = 0
    /\ pixel_to_inpaint_count = 0
    /\ block_coordinates_cpu = NullArray
    /\ max_change_cpu = NullArray
    /\ returned = -1
    /\ log = "none"
    /\ launch_log = <<>>
    /\ check_log = <<>>
    /\ cuda_error = "none"
    /\ NoBuffer /\ NoTile

SpecCompact == InitCompact /\ [][HostCompact]_vars

(***************************************************************************)
(* CUDABuffer<T>: construction, the cached sampler, SetTo from the buffer, *)
(* the partial transfers and destruction.  A sampler handle is its index   *)
(* in textures.                                                            *)
(***************************************************************************)
call_state == <<inputs, device, stream, host, history, cuda_error>>
call == <<call_state, tile>>

BaseDesc == SamplerDesc("clamp", "clamp", "point", "element", FALSE)

\* The requests made: one configuration, the five that differ from it in
\* one parameter, and one that differs in all.
SamplerRequests ==
    { BaseDesc,
      [BaseDesc EXCEPT !.address_mode_x = "border"],
      [BaseDesc EXCEPT !.address_mode_y = "border"],
      [BaseDesc EXCEPT !.filter_mode = "linear"],
      [BaseDesc EXCEPT !.read_mode = "normalized"],
      [BaseDesc EXCEPT !.use_normalized_coordinates = TRUE],
      SamplerDesc("border", "border", "linear", "normalized", TRUE) }

BufferHeights == {1, 2}

\* Mutation of SameSampler: the normalized flag is not compared.
SameSamplerButNormalized(cached, requested) ==
    /\ cached.address_mode_x = requested.address_mode_x
    /\ cached.address_mode_y = requested.address_mode_y
    /\ cached.filter_mode = requested.filter_mode
    /\ cached.read_mode = requested.read_mode

\* The comparison of the members with the request in GetCachedTextureObject.
SameSampler(cached, requested) ==
    /\ cached.address_mode_x = requested.address_mode_x
    /\ cached.address_mode_y = requested.address_mode_y
    /\ cached.filter_mode = requested.filter_mode
    /\ cached.read_mode = requested.read_mode
    /\ cached.use_normalized_coordinates = requested.use_normalized_coordinates

\* cudaCreateTextureObject: a new handle, the next index.
CreateTextureObject(list, desc, cached) ==
    Append(list, [desc |-> desc, destroyed |-> 0, cached |-> cached])

\* cudaDestroyTextureObject(h)
DestroyTextureObject(list, h) ==
    [list EXCEPT ![h].destroyed = @ + 1]

\* Mutation of TexturesAfterDestructor: the cached sampler is left alone.
TexturesAfterDestructorLeaking(list, allocated, h) == list

\* What ~CUDABuffer does to the samplers.
TexturesAfterDestructor(list, allocated, h) ==
    IF allocated THEN DestroyTextureObject(list, h) ELSE list

\* CUDABuffer(height, width)
BufferConstruct(height) ==
    /\ buffer_pc = "unbuilt"
    /\ buffer_pc' = "alive"
    /\ data_height_' = height
    /\ data_address_' = "live"
    /\ texture_object_allocated_' = FALSE
    /\ UNCHANGED <<call, free_calls, texture_object_, texture_desc_,
                   textures, texture, requests, transfers>>

\* GetCachedTextureObject(..., &returned)
BufferGetCached(desc) ==
    /\ buffer_pc = "alive"
    /\ Len(requests) < MaxRequests
    /\ IF texture_object_allocated_ /\ SameSampler(texture_desc_, desc)
       THEN /\ requests' =
                 Append(requests, [desc |-> desc, returned |-> texture_object_])
            /\ UNCHANGED <<texture_object_allocated_, texture_object_,
                           texture_desc_, textures>>
       ELSE LET kept == IF texture_object_allocated_
                        THEN DestroyTextureObject(textures, texture_object_)
                        ELSE textures
                created == CreateTextureObject(kept, desc, TRUE)
            IN  /\ textures' = created
                /\ texture_object_' = Len(created)
                /\ texture_object_allocated_' = TRUE
                /\ texture_desc_' = desc
                /\ requests' =
                     Append(requests, [desc |-> desc, returned |-> Len(created)])
    /\ UNCHANGED <<call, buffer_pc, data_height_, data_address_, free_calls,
                   texture, transfers>>

\* The SetTo calls made so far that read the buffer.
Copies == Cardinality({h \in DOMAIN textures : ~textures[h].cached})

\* SetTo(other, stream) with the buffer as other: CreateTextureObject
\* into the local texture and the copy kernel.
BufferSetToCreate ==
    /\ buffer_pc = "alive"
    /\ Copies < MaxCopies
    /\ textures' = CreateTextureObject(textures, BaseDesc, FALSE)
    /\ texture' = Len(textures')
    /\ buffer_pc' = "copying"
    /\ UNCHANGED <<call, data_height_, data_address_, free_calls,
                   texture_object_allocated_, texture_object_, texture_desc_,
                   requests, transfers>>

\* SetTo(other, stream): cudaDestroyTextureObject(texture) and the return.
BufferSetToDestroy ==
    /\ buffer_pc = "copying"
    /\ textures' = DestroyTextureObject(textures, texture)
    /\ texture' = 0
    /\ buffer_pc' = "alive"
    /\ UNCHANGED <<call, data_height_, data_address_, free_calls,
                   texture_object_allocated_, texture_object_, texture_desc_,
                   requests, transfers>>

\* UploadPartAsync / DownloadPartAsync(start, length, stream, data)
BufferPartTransfer(name, data_null) ==
    /\ buffer_pc = "alive"
    /\ Len(transfers) < MaxTransfers
    /\ LET issued == PartTransferChecks(data_height_, data_null)
       IN  /\ transfers' =
                Append(transfers, [name |-> name, data_null |-> data_null,
                                   issued |-> issued])
           /\ buffer_pc' = IF issued THEN buffer_pc ELSE "aborted"
    /\ UNCHANGED <<call, data_height_, data_address_, free_calls,
                   texture_object_allocated_, texture_object_, texture_desc_,
                   textures, texture, requests>>

\* ~CUDABuffer()
BufferDestruct ==
    /\ buffer_pc = "alive"
    /\ textures' = TexturesAfterDestructor(textures, texture_object_allocated_,
                                           texture_object_)
    /\ texture_object_allocated_' = FALSE
    /\ data_address_' = "freed"
    /\ free_calls' = free_calls + 1
    /\ buffer_pc' = "destroyed"
    /\ UNCHANGED <<call, data_height_, texture_object_, texture_desc_,
                   texture, requests, transfers>>

NextBuffer ==
    \/ \E height \in BufferHeights : BufferConstruct(height)
    \/ \E desc \in SamplerRequests : BufferGetCached(desc)
    \/ BufferSetToCreate
    \/ BufferSetToDestroy
    \/ \E data_null \in BOOLEAN : BufferPartTransfer("upload", data_null)
    \/ \E data_null \in BOOLEAN : BufferPartTransfer("download", data_null)
    \/ BufferDestruct

\* The buffer on its own: no call of InpaintDepthMapWithConvolutionCUDA runs.
InitBuffer ==
    /\ Entry(Scenario(FALSE, 0, 1, 1, 0, "none", FALSE, FALSE))
    /\ NoBuffer /\ NoTile

SpecBuffer == InitBuffer /\ [][NextBuffer]_vars

(***************************************************************************)
(* Calls with scratch buffers of height 1 or 2, next to a client that      *)
(* constructs a buffer of its own and makes partial transfers on it.       *)
(***************************************************************************)
SizedScenarios ==
    { Scenario(w, m, 1, 1, 0, h, FALSE, FALSE) :
        w \in BOOLEAN, m \in {0, 8}, h \in {"none", "one"} }

InitTransfers ==
    /\ \E sc \in SizedScenarios :
          \E coordinates_height \in BufferHeights, change_height \in BufferHeights :
             EntrySized(sc, <<2 * GridCells, coordinates_height>>,
                        <<GridCells, change_height>>)
    /\ NoBuffer /\ NoTile

NextTransfers ==
    \/ Next
    \/ \E height \in BufferHeights : BufferConstruct(height)
    \/ \E data_null \in BOOLEAN : BufferPartTransfer("upload", data_null)
    \/ \E data_null \in BOOLEAN : BufferPartTransfer("download", data_null)

SpecTransfers == InitTransfers /\ [][NextTransfers]_vars

(***************************************************************************)
(* Calls with scratch buffers of exactly one element per tile.  The device *)
(* arrays of the model stand for the pitched row of the allocation, which  *)
(* is longer than the buffer's width.                                      *)
(***************************************************************************)
ExactScenarios ==
    { Scenario(w, m, 1, 1, 0, h, FALSE, FALSE) :
        w \in BOOLEAN, m \in {0, 8}, h \in {"none", "one", "two", "partial"} }

InitExact ==
    /\ \E sc \in ExactScenarios :
          EntrySized(sc, <<GridCells, 1>>, <<GridCells, 1>>)
    /\ NoBuffer /\ NoTile

SpecExact == InitExact /\ [][Next]_vars

(***************************************************************************)
(* Properties.                                                             *)
(***************************************************************************)
\* n rounded up to the next multiple of kIterationsPerKernelCall.
RoundUp4(n) ==
    ((n + kIterationsPerKernelCall - 1) \div kIterationsPerKernelCall)
        * kIterationsPerKernelCall

\* The value the locator pass writes for pixel p.
ScaledInput(p) == depth_input_scaling_factor * depth_map_input[p]

\* The locator pass has run.
LocatorDone ==
    /\ pc # "launch_locator"
    /\ \A k \in DOMAIN stream : stream[k].op # "locator"

\* The call has returned and the stream has drained.
Quiescent == pc = "done" /\ stream = <<>>

LastCheck == check_log[Len(check_log)]
LastLaunch == launch_log[Len(launch_log)]

\* A convergence check that found some but not all of its tiles flagged.
PartialCheck(c) ==
    /\ check_log[c].flagged # {}
    /\ check_log[c].flagged # check_log[c].tiles

\* C1: after a convergence check in which at least one but not all active
\* tiles are flagged, every later diffusion launch is issued over flagged
\* tiles only: a tile not flagged at the check is not processed again.
C1_LaterLaunchesOnlyFlaggedTiles ==
    \A c \in DOMAIN check_log : \A k \in DOMAIN launch_log :
        (PartialCheck(c) /\ launch_log[k].i > check_log[c].i)
            => launch_log[k].tiles \subseteq check_log[c].flagged

NoHolePixels == \A p \in Pixels : ScaledInput(p) # 0

\* C3: for a depth map with zero hole pixels the call issues no diffusion
\* launch, returns 0, sets pixel_to_inpaint_count to 0 and leaves every
\* output pixel equal to depth_input_scaling_factor times the input pixel.
C3_NoHolesIsNoOp ==
    NoHolePixels =>
        /\ launch_log = <<>>
        /\ pc = "done" =>
              /\ returned = 0
              /\ pixel_to_inpaint_count = 0
              /\ \A p \in Pixels : depth_map_output[p] = ScaledInput(p)

C3_ReturnedWithoutHoles ==
    /\ NoHolePixels
    /\ pc = "done"
    /\ depth_input_scaling_factor = 2
    /\ garbage = 1

\* C4: when a convergence check finds no flagged tile, the run stops at
\* that check, reports success and returns the iteration count reached,
\* for every max_num_iterations >= 1.
C4_ConvergedCheckReportsSuccess ==
    (/\ pc = "done"
     /\ max_num_iterations >= 1
     /\ check_log # <<>>
     /\ LastCheck.flagged = {})
    => /\ log = "converged"
       /\ LastLaunch.i = LastCheck.i
       /\ returned = LastCheck.i + kIterationsPerKernelCall

\* The loop ended by its condition while tiles were still flagged.
EndedAtMaximum ==
    /\ pc = "done"
    /\ check_log # <<>>
    /\ LastCheck.flagged # {}

\* The pixels that are no holes hold what the locator pass wrote.
ValidPixelsKept ==
    \A p \in Pixels : depth_map_input[p] > 0 => depth_map_output[p] = ScaledInput(p)

\* C5 as stated: when the loop ends at the maximum with tiles still
\* flagged, the warning is logged and the count returned is
\* max_num_iterations.
C5_ReturnsCallersMaximum ==
    EndedAtMaximum =>
        /\ log = "maximum"
        /\ returned = max_num_iterations

\* C5: when the loop ends at the maximum with tiles still flagged, the
\* call returns, the warning is logged, and the count returned is
\* max_num_iterations rounded up to the next multiple of 4.
C5_ReturnsRoundedMaximum ==
    EndedAtMaximum =>
        /\ log = "maximum"
        /\ returned = RoundUp4(max_num_iterations)

C5_EndedAtMaximumBetweenMultiples ==
    /\ EndedAtMaximum
    /\ max_num_iterations = 5
    /\ returned = 8

\* C6: on every return path the value returned is 4 times the number of
\* diffusion launches issued during the call.
C6_ReturnsSubIterationsExecuted ==
    pc = "done" => returned = kIterationsPerKernelCall * Len(launch_log)

C6_ReturnedAfterConvergedCheck ==
    /\ pc = "done"
    /\ Len(launch_log) >= 2
    /\ LastCheck.flagged = {}

\* C7: the size of the active-tile list, sampled at each convergence check
\* and at each launch, never grows over a run.
C7_ActiveListNeverGrows ==
    /\ \A k \in 1 .. Len(launch_log) - 1 :
            launch_log[k + 1].n <= launch_log[k].n
    /\ \A c \in 1 .. Len(check_log) - 1 :
            check_log[c + 1].active <= check_log[c].active

C7_TwoChecksMade ==
    /\ Len(check_log) >= 2
    /\ Len(launch_log) >= 8
    /\ PartialCheck(1)

\* C8: a pixel that does not test as a hole in the input texture keeps,
\* through every diffusion launch and after the call, the scaled input
\* value the locator pass wrote.
C8_ValidPixelsNeverChange ==
    LocatorDone => ValidPixelsKept

C8_HoleFilledBesideValidPixels ==
    /\ Quiescent
    /\ use_weighting
    /\ \E p \in Pixels : depth_map_input[p] = 0 /\ depth_map_output[p] > 0
    /\ \E p \in Pixels : depth_map_input[p] > 0

NonNegativeInput == \A p \in Pixels : depth_map_input[p] >= 0

\* C9: with non-negative input depths, a former-hole pixel of the output
\* is zero or strictly positive in every state from the locator pass on;
\* it is never negative.
C9_FormerHolesNeverNegative ==
    (NonNegativeInput /\ LocatorDone) =>
        \A p \in Pixels : depth_map_input[p] = 0 => depth_map_output[p] >= 0

C9_FormerHoleFilled ==
    /\ NonNegativeInput
    /\ Quiescent
    /\ launch_log # <<>>
    /\ \E p \in Pixels : depth_map_input[p] = 0 /\ depth_map_output[p] > 0

\* C10: when a device operation fails, the process aborts at that call
\* site: no state has a failed operation and a host that goes on.
C10_AbortsAtFailingCall ==
    cuda_error # "none" => pc = "aborted"

\* The sampler the members describe, if one is cached.
CachedMatches(desc) ==
    /\ texture_object_allocated_
    /\ texture_desc_ = desc

LastRequest == requests[Len(requests)]

\* C11: a GetCachedTextureObject request whose five parameters equal those
\* of the cached sampler returns the cached handle and creates and destroys
\* nothing; any other request destroys the cached sampler, if there is one,
\* creates exactly one sampler with the requested parameters, and returns it.
C11_CachedSamplerReusedOrRebuilt ==
    [][Len(requests') = Len(requests) + 1 =>
        LET r == requests'[Len(requests')]
        IN  IF CachedMatches(r.desc)
            THEN /\ textures' = textures
                 /\ r.returned = texture_object_
            ELSE /\ Len(textures') = Len(textures) + 1
                 /\ textures'[Len(textures')] =
                        [desc |-> r.desc, destroyed |-> 0, cached |-> TRUE]
                 /\ r.returned = Len(textures')
                 /\ \A h \in DOMAIN textures :
                        textures'[h] =
                          IF texture_object_allocated_ /\ h = texture_object_
                          THEN [textures[h] EXCEPT !.destroyed = @ + 1]
                          ELSE textures[h]]_vars

\* A request was served from the cache and a later one rebuilt the sampler
\* for a change of the normalized flag alone.
C11_ReusedThenRebuilt ==
    /\ Len(requests) = 3
    /\ requests[1].returned = 1
    /\ requests[2].returned = 1
    /\ requests[3].returned = 2
    /\ requests[3].desc =
          [requests[2].desc EXCEPT !.use_normalized_coordinates = ~@]
    /\ textures[1].destroyed = 1

\* The samplers created over the buffer and not destroyed.
LiveTextures == {h \in DOMAIN textures : textures[h].destroyed = 0}

\* C12: the buffer owns at most one live cached sampler at any time, no
\* sampler is destroyed twice and the allocation is not freed twice; after
\* destruction every sampler created was destroyed exactly once and the
\* allocation was freed exactly once.
C12_SamplersAndAllocationReleasedOnce ==
    /\ Cardinality({h \in LiveTextures : textures[h].cached}) <= 1
    /\ \A h \in DOMAIN textures : textures[h].destroyed <= 1
    /\ free_calls = (IF buffer_pc = "destroyed" THEN 1 ELSE 0)
    /\ buffer_pc \in {"alive", "copying"} => data_address_ = "live"
    /\ buffer_pc = "destroyed" =>
          /\ LiveTextures = {}
          /\ data_address_ = "freed"

C12_DestroyedAfterRequestsAndCopy ==
    /\ buffer_pc = "destroyed"
    /\ Len(textures) = 3
    /\ Copies = 1
    /\ \A h \in DOMAIN textures : textures[h].destroyed = 1


\* C13: the host reads block_activity (in the compaction loop) and
\* max_change_cpu (in the counting loop) only when the stream is idle after
\* the operations that produce them: the locator launch and the download of
\* the counts, resp. the checked launch and the download of the flags; what it
\* reads is what the device holds.
C13_HostReadsAfterSynchronization ==
    /\ pc = "compact" =>
          /\ stream = <<>>
          /\ launch_log = <<>>
          /\ \A c \in 0 .. GridCells - 1 :
                /\ block_activity.d[c] = block_coordinates[c]
                /\ block_activity.d[c] =
                      InitNumActiveThreads(depth_input_scaling_factor,
                                           depth_map_input,
                                           c % grid_dim_x, c \div grid_dim_x)
    /\ pc = "count_flags" =>
          /\ stream = <<>>
          /\ LastLaunch.check
          /\ LastLaunch.i = i
          /\ \A j \in 0 .. active_block_count - 1 :
                max_change_cpu.d[j] = max_change[j]

\* The second check of a run reads flags that differ from those of the first.
C13_FlagsReadAtSecondCheck ==
    /\ pc = "count_flags"
    /\ Len(check_log) = 1
    /\ check_log[1].flagged # {}
    /\ active_block_count > 0
    /\ \A j \in 0 .. active_block_count - 1 : max_change_cpu.d[j] = 0

\* The launches before launch k that checked convergence.
ChecksBefore(k) == {j \in 1 .. k - 1 : launch_log[j].check}

\* The latest of them.
PreviousCheck(k) == CHOOSE j \in ChecksBefore(k) : \A h \in ChecksBefore(k) : h <= j

\* C14: a diffusion launch checks convergence exactly when it is the first
\* launch of the run or at least 25 iterations have elapsed since the launch
\* of the previous check; so consecutive checks are at least 25 iterations
\* apart, and the host downloads flags and synchronizes only after a checked
\* launch.
C14_ChecksEveryTwentyFiveIterations ==
    /\ \A k \in DOMAIN launch_log :
          launch_log[k].check <=>
             \/ ChecksBefore(k) = {}
             \/ launch_log[k].i - launch_log[PreviousCheck(k)].i >= 25
    /\ launch_log # <<>> => launch_log[1].check
    /\ \A j, k \in DOMAIN launch_log :
          j < k /\ launch_log[j].check /\ launch_log[k].check =>
             launch_log[k].i - launch_log[j].i >= 25
    /\ pc \in {"download_flags", "sync_flags", "count_flags"} =>
          /\ launch_log # <<>>
          /\ LastLaunch.check
    /\ pc = "loop" /\ launch_log # <<>> /\ ~LastLaunch.check =>
          \A k \in DOMAIN stream : stream[k].op # "download_flags"

\* A second check is launched after unchecked launches.
C14_SecondCheckAfterUncheckedLaunches ==
    /\ Len(launch_log) = 8
    /\ launch_log[8].check
    /\ launch_log[8].i = 28
    /\ \A k \in 2 .. 7 : ~launch_log[k].check
    /\ pc = "count_flags"

\* The in-image pixels whose scaled input value denotes a hole.
HolePixels == {p \in Pixels : ScaledInput(p) = 0}

\* The pixels of the output region of grid cell c: the regions of the cells
\* partition the image.
OutputRegion(c) ==
    {p \in Pixels : /\ PxX(p) \div kBlockOutputSizeX = c % grid_dim_x
                    /\ PxY(p) \div kBlockOutputSizeY = c \div grid_dim_x}

\* C15: the count the locator writes for a tile is the number of hole pixels
\* of the tile's own output region, and after the initialization phase
\* pixel_to_inpaint_count is the number of in-image hole pixels, each counted
\* once.
C15_CountsEveryHolePixelOnce ==
    /\ pc = "compact" =>
          \A c \in 0 .. GridCells - 1 :
             block_activity.d[c] = Cardinality(HolePixels \cap OutputRegion(c))
    /\ pc \in {"upload", "loop", "download_flags", "sync_flags",
               "count_flags", "finish", "done"} =>
          pixel_to_inpaint_count = Cardinality(HolePixels)

\* Holes on both sides of a tile border were counted.
C15_CountedAcrossTileBorder ==
    /\ pc = "upload"
    /\ active_block_count = 2
    /\ Pix(kBlockOutputSizeX - 1, 0) \in HolePixels
    /\ Pix(kBlockOutputSizeX, 0) \in HolePixels
    /\ pixel_to_inpaint_count = Cardinality(HolePixels)
    /\ pixel_to_inpaint_count > 2

\* The grid cells with a positive count.
PositiveCells == {c \in DOMAIN block_activity.d : block_activity.d[c] > 0}

\* The position of a cell among them, in row-major scan order.
ScanRank(c) == Cardinality({a \in PositiveCells : a < c})

RECURSIVE SumCounts(_, _)
SumCounts(activity, cells) ==
    IF cells = {} THEN 0
    ELSE LET c == CHOOSE a \in cells : TRUE
         IN  activity[c] + SumCounts(activity, cells \ {c})

\* The compaction loop has run.
Compacted == pc \notin {"launch_locator", "download_activity",
                        "sync_activity", "compact"}

\* C16: after the compaction, for every count array and grid size, the list
\* holds exactly the tiles with a positive count, each once and in row-major
\* scan order, each as (tile_x * 24, tile_y * 24), and the hole-pixel total
\* is the sum of the counts.
C16_CompactedListIsActiveTiles ==
    pc \in {"upload", "done"} /\ launch_log = <<>> =>
       /\ active_block_count = Cardinality(PositiveCells)
       /\ \A c \in PositiveCells :
             /\ block_coordinates_cpu.d[2 * ScanRank(c)] =
                   (c % grid_dim[1]) * kBlockOutputSizeX
             /\ block_coordinates_cpu.d[2 * ScanRank(c) + 1] =
                   (c \div grid_dim[1]) * kBlockOutputSizeY
       /\ pixel_to_inpaint_count = SumCounts(block_activity.d, PositiveCells)

\* The partial-transfer calls on the client's buffer: a call issues its copy
\* iff the buffer has height 1 and the host pointer is not null; the call
\* that does not aborts the process, so it is the last one.
TransferCallsChecked ==
    /\ \A k \in DOMAIN transfers :
          /\ transfers[k].issued <=>
                (data_height_ = 1 /\ ~transfers[k].data_null)
          /\ k < Len(transfers) => transfers[k].issued
    /\ buffer_pc = "aborted" <=>
          (transfers # <<>> /\ ~transfers[Len(transfers)].issued)

\* A call with block_coordinates of another height than 1 gets no further
\* than its first readback; one with such a max_change no further than the
\* download of the flags of its first check.
CallStopsAtReadback ==
    /\ block_coordinates_size[2] # 1 =>
          /\ pc \in {"launch_locator", "download_activity", "aborted"}
          /\ \A k \in DOMAIN stream : stream[k].op = "locator"
          /\ launch_log = <<>>
    /\ block_coordinates_size[2] = 1 /\ max_change_size[2] # 1 =>
          /\ pc \notin {"sync_flags", "count_flags"}
          /\ \A k \in DOMAIN stream : stream[k].op # "download_flags"
          /\ check_log = <<>>
          /\ Len(launch_log) <= 1
    /\ pc = "aborted" =>
          \/ /\ block_coordinates_size[2] # 1
             /\ launch_log = <<>>
          \/ /\ block_coordinates_size[2] = 1
             /\ max_change_size[2] # 1
             /\ Len(launch_log) = 1
             /\ LastLaunch.check

\* A step in which a partial transfer aborts.
TransferAborts ==
    \/ pc # "aborted" /\ pc' = "aborted"
    \/ buffer_pc # "aborted" /\ buffer_pc' = "aborted"

\* C17: UploadPartAsync and DownloadPartAsync on a buffer of another height
\* than 1, or with a null host pointer, abort without issuing a transfer
\* and without changing device memory or the host arrays; so the call aborts
\* at its first readback if block_coordinates has another height than 1, and
\* at the download of its first check if max_change has.
C17_PartTransferAbortsBeforeTransfer ==
    /\ [](TransferCallsChecked /\ CallStopsAtReadback)
    /\ [][TransferAborts =>
            /\ UNCHANGED <<device, stream, block_coordinates_cpu,
                           max_change_cpu>>
            /\ block_activity'.d \in {block_activity.d,
                                      Uninitialized(GridCells, garbage)}]_vars

\* The call aborted at the download of the flags of its first check.
C17_AbortedAtFirstCheck ==
    /\ pc = "aborted"
    /\ max_change_size[2] = 2
    /\ Len(launch_log) = 1
    /\ buffer_pc = "aborted"
    /\ data_height_ = 1
    /\ Len(transfers) = 2

\* Every pixel of the depth map is a hole.
AllHoleInput == \A p \in Pixels : depth_map_input[p] = 0

\* C18: for an all-hole depth map the output is all zero from the locator
\* pass on, whatever the diffusion launches do; pixel_to_inpaint_count is
\* width * height; and the first convergence check finds no tile changed, so
\* that a single launch is made.
C18_AllHolesStayZero ==
    AllHoleInput =>
       /\ LocatorDone => \A p \in Pixels : depth_map_output[p] = 0
       /\ Compacted => pixel_to_inpaint_count = Width * Height
       /\ \A k \in DOMAIN check_log : check_log[k].flagged = {}
       /\ Len(launch_log) <= 1
       /\ pc = "done" => returned <= kIterationsPerKernelCall

\* The call on an all-hole map returned after its first check.
C18_AllHoleCallReturned ==
    /\ AllHoleInput
    /\ Quiescent
    /\ Len(check_log) = 1
    /\ check_log[1].active = GridCells
    /\ returned = kIterationsPerKernelCall
    /\ log = "converged"
    /\ \A p \in Pixels : depth_map_output[p] = 0

\* The Chebyshev distance of two pixels: a sub-iteration fills the holes at
\* distance 1 of a filled or valid pixel.
PixelDistance(p, q) == Max(Abs(PxX(p) - PxX(q)), Abs(PxY(p) - PxY(q)))

\* The valid pixels all hold the value v > 0, the holes are some but not all
\* pixels and each is less than kIterationsPerKernelCall pixels away from a
\* valid one (so that the launch of the first check fills them before its
\* last sub-iteration), and the maximum exceeds that launch.
UniformAroundHoles(v) ==
    /\ v > 0
    /\ depth_input_scaling_factor = 1
    /\ \A p \in Pixels : depth_map_input[p] \in {0, v}
    /\ HolePixels # {}
    /\ \A p \in HolePixels :
          \E q \in Pixels \ HolePixels :
             PixelDistance(p, q) < kIterationsPerKernelCall
    /\ max_num_iterations > kIterationsPerKernelCall

\* C19: for a depth map whose valid pixels all hold one value v, with a
\* bounded hole region and a maximum large enough, the call reports
\* convergence, returns less than max_num_iterations, and every pixel, the
\* former holes included, holds v.
C19_UniformMapConvergesToValue ==
    \A v \in {depth_map_input[p] : p \in Pixels} :
       UniformAroundHoles(v) /\ Quiescent =>
          /\ log = "converged"
          /\ returned < max_num_iterations
          /\ \A p \in Pixels : depth_map_output[p] = v

\* A hole region three pixels deep was filled with the value around it.
C19_DeepHoleFilledWithValue ==
    /\ UniformAroundHoles(depth_map_input[0])
    /\ Quiescent
    /\ \E p \in HolePixels :
          \A q \in Pixels \ HolePixels :
             PixelDistance(p, q) >= kIterationsPerKernelCall - 1
    /\ \A p \in HolePixels : depth_map_output[p] = depth_map_input[0]
    /\ returned = kIterationsPerKernelCall

\* C20: every operation issued to the stream reads and writes the scratch
\* buffers within their widths: the locator writes a count per tile, the
\* activity download reads one per tile, the upload writes
\* 2 * active_block_count elements, a launch over n tiles reads n coordinate
\* pairs and, if it checks, writes n flags, and the download of the flags
\* reads active_block_count of them.
C20_ScratchAccessesWithinBuffers ==
    \A k \in DOMAIN stream :
       LET op == stream[k]
       IN  /\ op.op = "locator" =>
                grid_dim[1] * grid_dim[2] <= block_coordinates_size[1]
           /\ op.op \in {"download_activity", "upload_coordinates"} =>
                op.n <= block_coordinates_size[1]
           /\ op.op = "kernel" =>
                /\ 2 * op.n <= block_coordinates_size[1]
                /\ op.check => op.n <= max_change_size[1]
           /\ op.op = "download_flags" => op.n <= max_change_size[1]

\* The tile origin thread block b of the launch at the head of the stream
\* reads from block_coordinates.
BlockOrigin(b) == <<block_coordinates[2 * b], block_coordinates[2 * b + 1]>>

\* The working-buffer pixels thread block b loads into its cache.
BlockReads(b) ==
    { Pix(KernelX(use_weighting, BlockOrigin(b)[1], t),
          KernelY(use_weighting, BlockOrigin(b)[2], t)) : t \in Threads }

\* The working-buffer pixels thread block b writes back.
BlockWrites(b) ==
    { Pix(KernelX(use_weighting, BlockOrigin(b)[1], t),
          KernelY(use_weighting, BlockOrigin(b)[2], t)) :
      t \in { u \in Threads :
                WritesBack(use_weighting, depth_map_input,
                           BlockOrigin(b)[1], BlockOrigin(b)[2], u) } }

\* C21: within the diffusion launch that is executing, no pixel of the
\* working buffer is written by the thread block of one tile and read by the
\* thread block of another.
C21_NoPixelSharedBetweenBlocks ==
    HeadIs("kernel") =>
       \A b, c \in DOMAIN Head(stream).st :
          b # c => BlockWrites(b) \cap BlockReads(c) = {}

\* The thread blocks of the executing diffusion launch that hold a loaded
\* cache.
LoadedBlocks ==
    IF HeadIs("kernel")
    THEN { b \in DOMAIN Head(stream).st : Head(stream).st[b] = "loaded" }
    ELSE {}

\* <<depth_shared, weights_shared>> of thread block b after k sub-iterations
\* (the plain kernel has no weights_shared: its second component is its
\* depth_shared).
CachesAfter(b, k) ==
    LET ox == BlockOrigin(b)[1]
        oy == BlockOrigin(b)[2]
        d0 == LoadDepthShared(use_weighting, Head(stream).loaded[b], ox, oy)
    IN  IF use_weighting
        THEN WeightedIterate(
                 <<d0, LoadWeightsShared(d0, gradient_magnitude_div_sqrt2,
                                         ox, oy)>>,
                 depth_map_input, gradient_magnitude_div_sqrt2, ox, oy, k)
        ELSE LET d == PlainIterate(d0, depth_map_input, ox, oy, k)
             IN  <<d, d>>

\* The threads of block b whose pixel is a pixel to inpaint.
HoleThreads(b) ==
    { t \in Threads :
        kIsPixelToInpaint(depth_map_input,
            KernelX(use_weighting, BlockOrigin(b)[1], t),
            KernelY(use_weighting, BlockOrigin(b)[2], t)) }

\* <<weight, weighted sum>> thread t of block b accumulates from the caches.
Accumulated(b, caches, t) ==
    IF use_weighting
    THEN AccumulateWeighted(caches[1], caches[2], TRUE, t)
    ELSE AccumulatePlain(caches[1], TRUE,
                         KernelX(FALSE, BlockOrigin(b)[1], t),
                         KernelY(FALSE, BlockOrigin(b)[2], t), t)

SubIterations == 1 .. kIterationsPerKernelCall

\* C22: in every sub-iteration of either kernel a hole pixel's cached value
\* becomes the weighted mean of its neighbours when the weight it accumulated
\* is positive, and its cached value and cached weight stay as they were when
\* the accumulated weight is zero.
C22_ReplacedExactlyOnPositiveWeight ==
    \A b \in LoadedBlocks : \A k \in SubIterations :
       LET old == CachesAfter(b, k - 1)
           new == CachesAfter(b, k)
       IN  \A t \in HoleThreads(b) :
              LET acc == Accumulated(b, old, t)
              IN  IF acc[1] > 0
                  THEN new[1][t] = acc[2] \div acc[1]
                  ELSE new[1][t] = old[1][t] /\ new[2][t] = old[2][t]

\* Witness for C22: in one sub-iteration of the weighted kernel one hole
\* pixel with a full ring of neighbours gets a new value and another one,
\* whose neighbours are all invalid, keeps its value and weight.
C22_OneReplacedOneKept ==
    /\ use_weighting
    /\ \E b \in LoadedBlocks : \E k \in SubIterations :
          LET old == CachesAfter(b, k - 1)
              new == CachesAfter(b, k)
          IN  \E t, u \in { v \in HoleThreads(b) : HasNeighbourRing(v) } :
                 /\ Accumulated(b, old, t)[1] > 0
                 /\ new[1][t] # old[1][t]
                 /\ Accumulated(b, old, u)[1] = 0
                 /\ new[1][u] = old[1][u]
                 /\ new[2][u] = old[2][u]

\* The weight thread t of block b gives its k-th neighbour, from the caches.
NeighbourWeight(b, caches, t, k) ==
    IF use_weighting
    THEN PixelWeightWeighted(caches[2], t, Neighbours[k])
    ELSE PixelWeightPlain(caches[1],
                          KernelX(FALSE, BlockOrigin(b)[1], t),
                          KernelY(FALSE, BlockOrigin(b)[2], t),
                          t, Neighbours[k])

\* The threads of block b that accumulate a weighted sum for a hole pixel of
\* the image.
HoleReaders(b) ==
    { t \in HoleThreads(b) :
        /\ HasNeighbourRing(t)
        /\ kInImage(BlockOrigin(b)[1], BlockOrigin(b)[2], t) }

\* C23: in every sub-iteration of either kernel, a cache cell that gets a
\* positive weight in the sum of a hole pixel belongs to a position inside
\* the image and holds a value greater than 0.
C23_ContributorsInImageAndValid ==
    \A b \in LoadedBlocks : \A s \in SubIterations :
       LET old == CachesAfter(b, s - 1)
       IN  \A t \in HoleReaders(b) : \A k \in 1 .. 8 :
              NeighbourWeight(b, old, t, k) > 0 =>
                 /\ kInImage(BlockOrigin(b)[1], BlockOrigin(b)[2],
                             NeighbourIndex(t, Neighbours[k]))
                 /\ old[1][NeighbourIndex(t, Neighbours[k])] > 0

\* Witness for C23: a hole pixel on the image border whose sum leaves out a
\* cell that holds a positive duplicate of an edge pixel and takes in a
\* valid cell of the image.
C23_DuplicateOfEdgePixelLeftOut ==
    \E b \in LoadedBlocks : \E s \in SubIterations :
       LET old == CachesAfter(b, s - 1)
       IN  \E t \in HoleReaders(b) : \E k, l \in 1 .. 8 :
              /\ ~kInImage(BlockOrigin(b)[1], BlockOrigin(b)[2],
                           NeighbourIndex(t, Neighbours[k]))
              /\ old[1][NeighbourIndex(t, Neighbours[k])] > 0
              /\ NeighbourWeight(b, old, t, k) = 0
              /\ NeighbourWeight(b, old, t, l) > 0

\* |new - old| / old > max_change_rate_threshold, the threshold being
\* thr_num / ThrDen: the quotient is infinite for old = 0 and negative for
\* old < 0.
RelativeChangeExceeds(new, old) ==
    IF old > 0 THEN Abs(new - old) * ThrDen > thr_num * old
    ELSE IF old = 0 THEN new # 0
    ELSE FALSE

\* Some hole pixel of the image in the output region of block b's tile
\* changes by more than the threshold on the last sub-iteration.
SomeOutputPixelChanges(b) ==
    LET old == CachesAfter(b, kIterationsPerKernelCall - 1)
    IN  \E t \in HoleThreads(b) :
           /\ InOutputRegion(t)
           /\ kInImage(BlockOrigin(b)[1], BlockOrigin(b)[2], t)
           /\ LET acc == Accumulated(b, old, t)
              IN  /\ acc[1] > 0
                  /\ RelativeChangeExceeds(acc[2] \div acc[1], old[1][t])

LocatorWriters(p) ==
    { w \in (0 .. grid_dim_x - 1) \X (0 .. grid_dim_y - 1) \X Threads :
        /\ InitOutput(w[1], w[2], w[3])
        /\ Pix(InitX(w[1], w[3]), InitY(w[2], w[3])) = p }

\* The threads of the locator grid that write anything.
LocatorWritingThreads ==
    { w \in (0 .. grid_dim_x - 1) \X (0 .. grid_dim_y - 1) \X Threads :
        InitOutput(w[1], w[2], w[3]) }

\* C25: the step of the locator pass leaves in every pixel of the working
\* buffer the scaled input value, whatever the buffer held, and every pixel
\* has exactly one writing thread, which lies in the output region of its
\* tile and inside the image.
C25_LocatorWritesEveryPixelOnce ==
    [][HeadIs("locator") /\ stream' = Tail(stream) =>
          /\ \A p \in Pixels :
                /\ depth_map_output'[p] = ScaledInput(p)
                /\ Cardinality(LocatorWriters(p)) = 1
          /\ \A w \in LocatorWritingThreads :
                /\ InOutputRegion(w[3])
                /\ InitX(w[1], w[3]) \in 0 .. Width - 1
                /\ InitY(w[2], w[3]) \in 0 .. Height - 1]_vars

\* Witness for C25: the locator pass has just run over a working buffer that
\* held other values, with a scaling factor other than 1, and the diffusion
\* has not started.
C25_DirtyBufferOverwritten ==
    /\ LocatorDone
    /\ launch_log = <<>>
    /\ garbage = 1
    /\ depth_input_scaling_factor = 2
    /\ \A p \in Pixels : depth_map_output[p] = ScaledInput(p)
    /\ \E p \in Pixels : ScaledInput(p) # 0

\* The host array a transfer in the stream reads or writes.
TransferArray(op) ==
    IF op = "download_activity" THEN block_activity
    ELSE IF op = "upload_coordinates" THEN block_coordinates_cpu
    ELSE max_change_cpu

Transfers == {"download_activity", "upload_coordinates", "download_flags"}

\* A transfer the stream has not carried out yet will access a host array
\* that has been deleted.
PendingAccessToFreed ==
    \E k \in DOMAIN stream :
       /\ stream[k].op \in Transfers
       /\ TransferArray(stream[k].op).st = "freed"

\* C26: once the call has returned, every host array it allocated is freed
\* (the activity snapshot and the coordinate list always, the flag snapshot
\* unless the call returned before allocating it); the host reads an array
\* only while it is allocated, and no transfer accesses an array after it
\* was freed.
C26_HostArraysFreedAndNotUsedAfter ==
    /\ pc = "done" =>
          /\ block_activity.st = "freed"
          /\ block_coordinates_cpu.st = "freed"
          /\ max_change_cpu.st =
                IF pixel_to_inpaint_count = 0 THEN "null" ELSE "freed"
    /\ pc = "compact" => block_activity.st = "alloc"
    /\ pc = "upload" => block_coordinates_cpu.st = "alloc"
    /\ pc = "count_flags" => max_change_cpu.st = "alloc"
    /\ ~PendingAccessToFreed

\* A transfer of the host array named by op is still in the stream: no
\* cudaStreamSynchronize has returned since it was issued.
TransferInFlight(op) == \E k \in DOMAIN stream : stream[k].op = op

\* C27: a step that deletes a host array is taken only when no transfer of
\* that array is in the stream, that is, after a synchronization that
\* followed the transfer.
C27_FreedOnlyAfterSynchronization ==
    [][\A op \in Transfers :
          (TransferArray(op).st = "alloc" /\ TransferArray(op)'.st = "freed")
             => ~TransferInFlight(op)]_vars

\* C28: once the locator pass has run, every thread of its grid that stands
\* on a pixel of the image counted the pixel as a hole exactly if the
\* diffusion kernels treat that pixel as a pixel to inpaint.
C28_HoleTestsAgree ==
    LocatorDone =>
       \A w \in LocatorWritingThreads :
          InitThreadIsActive(depth_input_scaling_factor, depth_map_input,
                             w[1], w[2], w[3])
          <=> kIsPixelToInpaint(depth_map_input, InitX(w[1], w[3]),
                                InitY(w[2], w[3]))

(***************************************************************************)
(* One thread block of a diffusion launch, thread by thread.  The block    *)
(* works on the tile with origin (0, 0).  Every thread runs the same       *)
(* kernel, a sequence of steps; __syncthreads() lets a thread pass when    *)
(* every thread of the block has arrived.  The threads followed are those  *)
(* of a patch at the right edge of the tile's output region.               *)
(***************************************************************************)
Step(ph, sub) == [ph |-> ph, i |-> sub]

\* Mutation of BarrierAfterUpdate: only the last sub-iteration ends with a
\* barrier.
BarrierAfterUpdateLastOnly(weighting, sub) ==
    sub = kIterationsPerKernelCall - 1

\* Whether sub-iteration sub ends with __syncthreads(): always in
\* ConvolutionInpaintingKernel; if (i < kIterationsPerKernelCall - 1) in
\* ConvolutionInpaintingKernelWithWeighting.
BarrierAfterUpdate(weighting, sub) ==
    weighting => sub < kIterationsPerKernelCall - 1

\* The steps of one pass through the loop body.
SubIterationSteps(weighting, sub) ==
    << Step("accumulate", sub), Step("barrier", sub), Step("update", sub) >>
    \o (IF BarrierAfterUpdate(weighting, sub)
        THEN << Step("barrier", sub) >> ELSE << >>)

RECURSIVE LoopSteps(_, _)
LoopSteps(weighting, n) ==
    IF n = 0 THEN << >>
    ELSE LoopSteps(weighting, n - 1) \o SubIterationSteps(weighting, n - 1)

\* The kernel as the sequence of steps of one thread.
KernelSteps(weighting) ==
    << Step("load", 0), Step("barrier", 0) >>
    \o LoopSteps(weighting, kIterationsPerKernelCall)
    \o << Step("store", 0) >>

TrackedThreads ==
    { t \in Threads :
        /\ RawX(0, t) \in kBlockOutputSizeX - 3 .. kBlockOutputSizeX - 1
        /\ RawY(0, t) \in 0 .. 1 }

Access(t, array, cell, kind, step) ==
    [thread |-> t, array |-> array, cell |-> cell, kind |-> kind,
     ph |-> step.ph, i |-> step.i]

\* kIsPixelToInpaint of thread t of the block.
ThreadInpaints(t) ==
    kIsPixelToInpaint(depth_map_input, KernelX(use_weighting, 0, t),
                      KernelY(use_weighting, 0, t))

\* kOutput of thread t of the block.
ThreadOutput(t) ==
    IF use_weighting THEN kOutputWeighted(depth_map_input, 0, 0, t)
                     ELSE kOutputPlain(0, 0, t)

\* The accesses of thread t to depth_shared and weights_shared in a step of
\* the kernel.  The replacement of the cached value depends on the
\* accumulated weight; it is taken to happen for every pixel to inpaint.
\* The block-wide reduction of the convergence test works on storage of its
\* own, int_storage, and is left out.
StepAccesses(t, step) ==
    IF step.ph = "load"
    THEN {Access(t, "depth_shared", t, "write", step)}
         \cup (IF use_weighting
               THEN {Access(t, "depth_shared", t, "read", step),
                     Access(t, "weights_shared", t, "write", step)}
               ELSE {})
    ELSE IF step.ph = "accumulate"
    THEN IF ThreadInpaints(t) /\ HasNeighbourRing(t)
         THEN { Access(t, "depth_shared", NeighbourIndex(t, Neighbours[k]),
                       "read", step) : k \in 1 .. 8 }
              \cup (IF use_weighting
                    THEN { Access(t, "weights_shared",
                                  NeighbourIndex(t, Neighbours[k]),
                                  "read", step) : k \in 1 .. 8 }
                    ELSE {})
         ELSE {}
    ELSE IF step.ph = "update"
    THEN (IF /\ check_convergence
             /\ step.i = kIterationsPerKernelCall - 1
             /\ ThreadOutput(t)
             /\ ThreadInpaints(t)
          THEN {Access(t, "depth_shared", t, "read", step)}
          ELSE {})
         \cup (IF ThreadInpaints(t)
               THEN {Access(t, "depth_shared", t, "write", step)}
                    \cup (IF use_weighting
                             /\ step.i < kIterationsPerKernelCall - 1
                          THEN {Access(t, "weights_shared", t, "write", step)}
                          ELSE {})
               ELSE {})
    ELSE IF step.ph = "store"
    THEN IF ThreadOutput(t) /\ ThreadInpaints(t)
         THEN {Access(t, "depth_shared", t, "read", step)}
         ELSE {}
    ELSE {}

ThreadDone(t) == thread_pc[t] > Len(KernelSteps(use_weighting))

ThreadAt(t) == KernelSteps(use_weighting)[thread_pc[t]]

\* Thread t executes its next step, which is not a barrier.
ThreadStep(t) ==
    /\ ~ThreadDone(t)
    /\ ThreadAt(t).ph # "barrier"
    /\ interval' = interval \cup StepAccesses(t, ThreadAt(t))
    /\ thread_pc' = [thread_pc EXCEPT ![t] = thread_pc[t] + 1]
    /\ UNCHANGED <<call_state, buffer, check_convergence>>

\* __syncthreads(): every thread has arrived, all pass.
BarrierRelease ==
    /\ \A t \in TrackedThreads :
          ~ThreadDone(t) /\ ThreadAt(t).ph = "barrier"
    /\ thread_pc' = [t \in TrackedThreads |-> thread_pc[t] + 1]
    /\ interval' = {}
    /\ UNCHANGED <<call_state, buffer, check_convergence>>

TileScenarios ==
    { Scenario(w, 5, 1, 1, 0, h, FALSE, FALSE) :
        w \in BOOLEAN, h \in {"one", "border"} }

InitTile ==
    /\ \E sc \in TileScenarios : Entry(sc)
    /\ NoBuffer
    /\ check_convergence \in BOOLEAN
    /\ thread_pc = [t \in TrackedThreads |-> 1]
    /\ interval = {}

NextTile ==
    \/ \E t \in TrackedThreads : ThreadStep(t)
    \/ BarrierRelease

SpecTile == InitTile /\ [][NextTile]_vars

\* Two accesses to the same cell by different threads, one of them a write.
Conflict(a, b) ==
    /\ a.thread # b.thread
    /\ a.array = b.array
    /\ a.cell = b.cell
    /\ (a.kind = "write" \/ b.kind = "write")

\* C29: between two barriers no cell of the tile cache is accessed by two
\* threads one of which writes it; no neighbour read shares a barrier
\* interval with a replacement; and a replacement shares one with the final
\* write-back only as accesses of each thread to its own cell.
C29_NoUnsynchronizedSharing ==
    \A a, b \in interval :
       /\ ~Conflict(a, b)
       /\ ~(a.ph = "accumulate" /\ b.ph = "update")
       /\ (a.ph = "update" /\ b.ph = "store") =>
             /\ use_weighting
             /\ a.i = kIterationsPerKernelCall - 1
             /\ a.cell = a.thread
             /\ b.cell = b.thread

\* Witness for C29: in the weighted kernel one thread has replaced its cell
\* in the last sub-iteration and another has already read its own cell for
\* the write-back, with no barrier in between.
C29_WriteBackBesideLastReplacement ==
    /\ use_weighting
    /\ \E a, b \in interval :
          /\ a.thread # b.thread
          /\ a.ph = "update" /\ a.kind = "write"
          /\ b.ph = "store" /\ b.kind = "read"
====
